---- MODULE Spec2Model ----
(***************************************************************************)
(* A model of the medical-content review service: the legacy block parser, *)
(* the structured-payload path, the summary generator, the orchestrators   *)
(* and the two-step locate protocol.                                       *)
(*                                                                         *)
(* Texts are TLA+ strings handled character by character (Len, SubSeq,     *)
(* Head, Tail and \o act on strings as on sequences); a str that json      *)
(* decoding gives with a character no TLA+ string holds is the sequence of *)
(* its code points.  A float is the IEEE 754 double as sign, binary        *)
(* mantissa and power of two.  An optional value is a sequence of length 0 *)
(* (None) or 1.                                                            *)
(***************************************************************************)
EXTENDS Integers, Sequences, FiniteSets, TLC

VARIABLES
    uploaded_images,  \* routes/analysis.py: the Pending Upload table
    request,          \* the call being served: its operation and arguments
    remote_calls,     \* invocations of the remote model made by the call
    remote_reply,     \* what the remote model answered to the call
    response          \* what the call returned or raised

vars == <<uploaded_images, request, remote_calls, remote_reply, response>>

None == <<>>
Some(v) == <<v>>

(***************************************************************************)
(* Python's str operations, as the parser uses them.  A text is a string   *)
(* over the characters U+0001 .. U+00FF without the grave accent U+0060,   *)
(* which a TLA+ string cannot hold.                                        *)
(***************************************************************************)
\* the characters U+0001 .. U+00FF in code order: the character at place n is chr(n);
\* place 96 is a filler that is never read
Latin1 ==
    "\t\n\f\r"
        \o " !\"#$%&'()*+,-./0123456789:;<=>?"
        \o "@ABCDEFGHIJKLMNOPQRSTUVWXYZ[\\]^_"
        \o "?abcdefghijklmnopqrstuvwxyz{|}~"
        \o ""
        \o " ¡¢£¤¥¦§¨©ª«¬­®¯°±²³´µ¶·¸¹º»¼½¾¿"
        \o "ÀÁÂÃÄÅÆÇÈÉÊËÌÍÎÏÐÑÒÓÔÕÖ×ØÙÚÛÜÝÞß"
        \o "àáâãäåæçèéêëìíîïðñòóôõö÷øùúûüýþÿ"

\* the characters c with c.isspace()
Whitespace == {SubSeq(Latin1, n, n) : n \in {9, 10, 11, 12, 13, 28, 29, 30, 31, 32, 133, 160}}

\* s[a-1:b], a slice that stops at the ends of s as Python's do
Sub(s, a, b) == SubSeq(s, IF a < 1 THEN 1 ELSE a, IF b > Len(s) THEN Len(s) ELSE b)

\* s[i-1:i]: the character at i, "" beyond the ends
Ch(s, i) == IF i < 1 \/ i > Len(s) THEN "" ELSE SubSeq(s, i, i)

\* s[n:]
Drop(s, n) == SubSeq(s, n + 1, Len(s))

\* s[:n]
Take(s, n) == SubSeq(s, 1, IF n > Len(s) THEN Len(s) ELSE n)

startswith(s, p) == Len(p) <= Len(s) /\ SubSeq(s, 1, Len(p)) = p

\* the least member of a set of integers, 0 for the empty set
MinOrZero(S) == IF S = {} THEN 0 ELSE CHOOSE i \in S : \A j \in S : i <= j

\* the places where p occurs in s
occurrences(s, p) == {i \in 1..(Len(s) - Len(p) + 1) : SubSeq(s, i, i + Len(p) - 1) = p}

\* s.find(p) + 1: the place of the leftmost occurrence of p in s, 0 when none
find(s, p) == MinOrZero(occurrences(s, p))

\* p in s
contains(s, p) == occurrences(s, p) # {}

\* whether chr(n) is a character a text can hold
InAlphabet(n) == n \in (1..255) \ {96}

\* chr(n), for such an n
chr(n) == SubSeq(Latin1, n, n)

\* ord(c) of a character of a text
ord(c) == find(Latin1, c)

\* the code points of the characters of the text s, in order
codes_of(s) == [k \in 1..Len(s) |-> ord(SubSeq(s, k, k))]

\* s.split(sep), from the place i of the leftmost occurrence of sep in s
RECURSIVE split_at(_, _, _)
split_at(s, sep, i) ==
    IF i = 0 THEN <<s>>
    ELSE <<SubSeq(s, 1, i - 1)>>
             \o split_at(Drop(s, i + Len(sep) - 1), sep,
                         find(Drop(s, i + Len(sep) - 1), sep))

\* s.split(sep)
split(s, sep) == split_at(s, sep, find(s, sep))

\* s.split(sep, 1)[1], for an s that holds sep
after_first(s, sep) == Drop(s, find(s, sep) + Len(sep) - 1)

IsSpace(c) == c \in Whitespace

RECURSIVE lstrip(_)
lstrip(s) == IF s # "" /\ IsSpace(Head(s)) THEN lstrip(Tail(s)) ELSE s

RECURSIVE rstrip(_)
rstrip(s) ==
    IF s # "" /\ IsSpace(SubSeq(s, Len(s), Len(s)))
    THEN rstrip(SubSeq(s, 1, Len(s) - 1)) ELSE s

\* s.strip()
strip(s) == rstrip(lstrip(s))

\* the letters c for which c.lower() is another character, and what it is
UPPER == "ABCDEFGHIJKLMNOPQRSTUVWXYZ" \o SubSeq(Latin1, 192, 214) \o SubSeq(Latin1, 216, 222)
LOWER == "abcdefghijklmnopqrstuvwxyz" \o SubSeq(Latin1, 224, 246) \o SubSeq(Latin1, 248, 254)
\* the letter of LOWER at the place i of c in UPPER, c itself when i = 0
lower_at(c, i) == IF i = 0 THEN c ELSE SubSeq(LOWER, i, i)

lower_ch(c) == lower_at(c, find(UPPER, c))

\* s.lower()
RECURSIVE lower(_)
lower(s) ==
    IF s = "" THEN ""
    ELSE IF Len(s) = 1 THEN lower_ch(s)
    ELSE lower(SubSeq(s, 1, Len(s) \div 2)) \o lower(SubSeq(s, Len(s) \div 2 + 1, Len(s)))

\* s.replace(a, b) for a one-character a
RECURSIVE replace(_, _, _)
replace(s, a, b) ==
    IF s = "" THEN ""
    ELSE IF Len(s) = 1 THEN (IF s = a THEN b ELSE s)
    ELSE replace(SubSeq(s, 1, Len(s) \div 2), a, b)
             \o replace(SubSeq(s, Len(s) \div 2 + 1, Len(s)), a, b)

Digits == {"0", "1", "2", "3", "4", "5", "6", "7", "8", "9"}

DigitAt(s, i) == Ch(s, i) \in Digits

DigitVal(c) == CHOOSE d \in 0..9 : SubSeq("0123456789", d + 1, d + 1) = c

\* str(n) for n >= 0
RECURSIVE str_of_nat(_)
str_of_nat(n) ==
    IF n < 10 THEN SubSeq("0123456789", n + 1, n + 1)
    ELSE str_of_nat(n \div 10) \o SubSeq("0123456789", (n % 10) + 1, (n % 10) + 1)

\* sep.join(parts)
RECURSIVE join(_, _)
join(sep, parts) ==
    IF parts = <<>> THEN ""
    ELSE IF Len(parts) = 1 THEN parts[1]
    ELSE parts[1] \o sep \o join(sep, Tail(parts))

(***************************************************************************)
(* re.search(r"(\d{1,2}:\d{2}(?::\d{2})?)", line): leftmost match, each    *)
(* quantifier greedy with backtracking.                                    *)
(***************************************************************************)
\* whether ":dd" stands at the colon k
colon_digits(s, k) == Ch(s, k) = ":" /\ DigitAt(s, k + 1) /\ DigitAt(s, k + 2)

\* the end of ":dd" or ":dd:dd" starting at the colon k, 0 when it does not match
timestamp_tail(s, k) ==
    IF colon_digits(s, k) THEN (IF colon_digits(s, k + 3) THEN k + 5 ELSE k + 2) ELSE 0

\* the end of a match that starts at i, 0 when none starts there
timestamp_match_at(s, i) ==
    IF ~DigitAt(s, i) THEN 0
    ELSE IF DigitAt(s, i + 1) /\ colon_digits(s, i + 2) THEN timestamp_tail(s, i + 2)
    ELSE timestamp_tail(s, i + 1)

\* the match that starts at i as an optional string, None when i = 0
timestamp_group(s, i) == IF i = 0 THEN None ELSE Some(SubSeq(s, i, timestamp_match_at(s, i)))

\* group(1) of the search as an optional string
timestamp_search(s) ==
    timestamp_group(s, MinOrZero({i \in 1..Len(s) : timestamp_match_at(s, i) # 0}))

(***************************************************************************)
(* Python values, as json.loads gives them: a record tagged by t.  An int  *)
(* is its sign and its decimal digits.  A str is its text s, or, when one  *)
(* of its characters is U+0000, U+0060 or above U+00FF, its code points    *)
(* codes.  The keys of an object are str values.  The result of an         *)
(* operation is [exc, v]: exc names the exception raised, "" when none.    *)
(* An exception raised where an except clause can print it carries text,   *)
(* the str value str(e) gives.                                             *)
(***************************************************************************)
JNull == [t |-> "null"]
JBool(b) == [t |-> "bool", b |-> b]
JInt(neg, digits) == [t |-> "int", neg |-> neg, digits |-> digits]
JStr(s) == [t |-> "str", s |-> s]
JWide(codes) == [t |-> "str", codes |-> codes]
JArr(items) == [t |-> "arr", items |-> items]
JObj(keys, vals) == [t |-> "obj", keys |-> keys, vals |-> vals]

\* whether the str v is held as code points
IsWide(v) == "codes" \in DOMAIN v

\* the code points of the str v
codes_of_str(v) == IF IsWide(v) THEN v.codes ELSE codes_of(v.s)

Ret(v) == [exc |-> "", v |-> v]
Raise(e) == [exc |-> e, v |-> JNull]
RaiseWith(e, text) == [exc |-> e, v |-> JNull, text |-> text]

(***************************************************************************)
(* Naturals of any size, as float() and json.loads need them: a sequence   *)
(* of limbs in base 10000, least significant first, without a zero limb at *)
(* the high end; <<>> is 0.                                                *)
(***************************************************************************)
\* the greatest member of a non-empty set of integers
MaxOf(S) == CHOOSE i \in S : \A j \in S : j <= i

\* a without the zero limbs at its high end
big_norm(a) ==
    SubSeq(a, 1, MaxOf({0} \cup {i \in 1..Len(a) : a[i] # 0}))

\* the value of the decimal digits d, for Len(d) <= 9
RECURSIVE nat_of_str(_)
nat_of_str(d) ==
    IF d = "" THEN 0
    ELSE nat_of_str(SubSeq(d, 1, Len(d) - 1)) * 10 + DigitVal(SubSeq(d, Len(d), Len(d)))

\* the number of low digits of d that its lower half of limbs takes
low_digits(d) == 4 * ((Len(d) \div 4 + 1) \div 2)

\* the limbs of the digits d, four digits to a limb
RECURSIVE big_limbs(_)
big_limbs(d) ==
    IF Len(d) <= 4 THEN <<nat_of_str(d)>>
    ELSE big_limbs(SubSeq(d, Len(d) - low_digits(d) + 1, Len(d)))
             \o big_limbs(SubSeq(d, 1, Len(d) - low_digits(d)))

\* the natural the decimal digits d write
big_of_digits(d) == big_norm(big_limbs(d))

\* -1, 0 or 1 as the limbs lo..hi of a are below, equal to or above those of b
RECURSIVE big_cmp_part(_, _, _, _)
big_cmp_part(a, b, lo, hi) ==
    IF lo > hi THEN 0
    ELSE IF lo = hi
    THEN (IF a[lo] < b[lo] THEN 0 - 1 ELSE IF a[lo] > b[lo] THEN 1 ELSE 0)
    ELSE LET high == big_cmp_part(a, b, (lo + hi) \div 2 + 1, hi)
         IN  IF high # 0 THEN high ELSE big_cmp_part(a, b, lo, (lo + hi) \div 2)

\* -1, 0 or 1 as a is below, equal to or above b
big_cmp(a, b) ==
    IF Len(a) < Len(b) THEN 0 - 1
    ELSE IF Len(a) > Len(b) THEN 1
    ELSE big_cmp_part(a, b, 1, Len(a))

\* the limbs lo..hi of a times k plus carry, for 0 < k <= 65536: [limbs, carry]
RECURSIVE big_times_part(_, _, _, _, _)
big_times_part(a, k, lo, hi, carry) ==
    IF lo > hi THEN [limbs |-> <<>>, carry |-> carry]
    ELSE IF lo = hi
    THEN [limbs |-> <<(a[lo] * k + carry) % 10000>>,
          carry |-> (a[lo] * k + carry) \div 10000]
    ELSE LET low == big_times_part(a, k, lo, (lo + hi) \div 2, carry)
             high == big_times_part(a, k, (lo + hi) \div 2 + 1, hi, low.carry)
         IN  [limbs |-> low.limbs \o high.limbs, carry |-> high.carry]

\* the product with the limbs of its last carry
with_carry(p) == p.limbs \o big_norm(<<p.carry % 10000, p.carry \div 10000>>)

\* a * k, for 0 < k <= 65536
big_times(a, k) == with_carry(big_times_part(a, k, 1, Len(a), 0))

\* the limb i of b, 0 beyond its end
limb(b, i) == IF i <= Len(b) THEN b[i] ELSE 0

\* the limbs lo..hi of a minus those of b minus borrow: [limbs, borrow]
RECURSIVE big_sub_part(_, _, _, _, _)
big_sub_part(a, b, lo, hi, borrow) ==
    IF lo > hi THEN [limbs |-> <<>>, borrow |-> borrow]
    ELSE IF lo = hi
    THEN [limbs |-> <<(a[lo] - limb(b, lo) - borrow + 10000) % 10000>>,
          borrow |-> IF a[lo] - limb(b, lo) - borrow < 0 THEN 1 ELSE 0]
    ELSE LET low == big_sub_part(a, b, lo, (lo + hi) \div 2, borrow)
             high == big_sub_part(a, b, (lo + hi) \div 2 + 1, hi, low.borrow)
         IN  [limbs |-> low.limbs \o high.limbs, borrow |-> high.borrow]

\* a - b, for a >= b
big_sub(a, b) == big_norm(big_sub_part(a, b, 1, Len(a), 0).limbs)

(***************************************************************************)
(* Python's float: an IEEE 754 double.  A finite float is its sign, its    *)
(* mantissa as a binary numeral that ends in 1 ("" for zero) and the power *)
(* of two the mantissa is multiplied by: 0.5 is ("1", -1), 1.0 is ("1", 0),*)
(* 1.5 is ("11", -1).  The mantissa is "inf" or "nan" for the others.      *)
(***************************************************************************)
PyFloat(neg, mantissa, exp) ==
    [t |-> "float", neg |-> neg, mantissa |-> mantissa, exp |-> exp]

FloatZero(neg) == PyFloat(neg, "", 0)
FloatInf(neg) == PyFloat(neg, "inf", 0)
FloatNaN == PyFloat(FALSE, "nan", 0)

\* 1.0, 0.5 and 0.25
FloatOne == PyFloat(FALSE, "1", 0)
FloatHalf == PyFloat(FALSE, "1", 0 - 1)
FloatQuarter == PyFloat(FALSE, "1", 0 - 2)

\* f >= 0.0
float_ge_zero(f) ==
    IF f.mantissa = "nan" THEN FALSE
    ELSE IF f.mantissa = "" THEN TRUE
    ELSE ~f.neg

\* f <= 1.0
float_le_one(f) ==
    IF f.mantissa = "nan" THEN FALSE
    ELSE IF f.mantissa = "inf" THEN f.neg
    ELSE IF f.mantissa = "" \/ f.neg THEN TRUE
    ELSE Len(f.mantissa) + f.exp <= 0 \/ (f.mantissa = "1" /\ f.exp = 0)

RECURSIVE lstrip_zeros(_)
lstrip_zeros(d) == IF d # "" /\ Head(d) = "0" THEN lstrip_zeros(Tail(d)) ELSE d

RECURSIVE rstrip_zeros(_)
rstrip_zeros(d) ==
    IF d # "" /\ SubSeq(d, Len(d), Len(d)) = "0"
    THEN rstrip_zeros(SubSeq(d, 1, Len(d) - 1)) ELSE d

\* k zeros
RECURSIVE zeros(_)
zeros(k) ==
    IF k <= 0 THEN ""
    ELSE IF k = 1 THEN "0"
    ELSE zeros(k \div 2) \o zeros(k - k \div 2)

\* the binary numeral b plus one
RECURSIVE bin_inc(_)
bin_inc(b) ==
    IF b = "" THEN "1"
    ELSE IF SubSeq(b, Len(b), Len(b)) = "0" THEN SubSeq(b, 1, Len(b) - 1) \o "1"
    ELSE bin_inc(SubSeq(b, 1, Len(b) - 1)) \o "0"

\* 2^k, for 0 <= k <= 16
RECURSIVE pow2(_)
pow2(k) == IF k = 0 THEN 1 ELSE 2 * pow2(k - 1)

\* a * 2^k
RECURSIVE shift(_, _)
shift(a, k) ==
    IF a = <<>> THEN <<>>
    ELSE IF k <= 16 THEN big_times(a, pow2(k))
    ELSE shift(shift(a, k \div 2), k - k \div 2)

\* the greatest e of lo..hi with m * 2^e <= n, for m * 2^lo <= n
RECURSIVE floor_log2(_, _, _, _)
floor_log2(n, m, lo, hi) ==
    IF lo = hi THEN lo
    ELSE IF big_cmp(shift(m, (lo + hi + 1) \div 2), n) <= 0
    THEN floor_log2(n, m, (lo + hi + 1) \div 2, hi)
    ELSE floor_log2(n, m, lo, (lo + hi + 1) \div 2 - 1)

\* the least k of lo..hi with n * 2^k >= m, for n * 2^hi >= m
RECURSIVE ceil_log2(_, _, _, _)
ceil_log2(n, m, lo, hi) ==
    IF lo = hi THEN lo
    ELSE IF big_cmp(shift(n, (lo + hi) \div 2), m) >= 0
    THEN ceil_log2(n, m, lo, (lo + hi) \div 2)
    ELSE ceil_log2(n, m, (lo + hi) \div 2 + 1, hi)

\* n / (m * 2^e), for n >= m * 2^e
scale_up(n, m, e) == [n |-> n, m |-> shift(m, e), e |-> e]

\* (n * 2^k) / m, for n * 2^k >= m
scale_down(n, m, k) == [n |-> shift(n, k), m |-> m, e |-> 0 - k]

\* the greater of two integers
Max(a, b) == IF a >= b THEN a ELSE b

\* [n, m, e] with 1 <= n / m < 2 and the value equal to (n / m) * 2^e: a limb is
\* between 13 and 14 binary digits, which bounds e by the lengths of n and m
scaled(n, m) ==
    IF big_cmp(n, m) >= 0
    THEN scale_up(n, m, floor_log2(n, m, Max(0, 13 * (Len(n) - Len(m) - 1)),
                                   14 * (Len(n) - Len(m) + 1)))
    ELSE scale_down(n, m, ceil_log2(n, m, Max(1, 13 * (Len(m) - Len(n) - 1)),
                                    14 * (Len(m) - Len(n) + 1)))

\* the binary digits of r / m, for r < 2m: up to nbits of them, fewer when nothing
\* remains; r is twice what remains
RECURSIVE quotient_bits(_, _, _, _)
quotient_bits(r, m, bits, nbits) ==
    IF Len(bits) >= nbits \/ r = <<>> THEN [bits |-> bits, r |-> r]
    ELSE IF big_cmp(r, m) >= 0
    THEN quotient_bits(big_times(big_sub(r, m), 2), m, bits \o "1", nbits)
    ELSE quotient_bits(big_times(r, 2), m, bits \o "0", nbits)

\* round half to even: whether the digits got are rounded up
rounds_up(got, m) ==
    \/ big_cmp(got.r, m) > 0
    \/ /\ big_cmp(got.r, m) = 0
       /\ got.bits # "" /\ SubSeq(got.bits, Len(got.bits), Len(got.bits)) = "1"

\* what a value beyond the largest float becomes: inf for a text, OverflowError for an int
overflowed(neg, raises) == IF raises THEN Raise("OverflowError") ELSE Ret(FloatInf(neg))

\* the float of the binary numeral bits times 2^unit
float_of_rounded(neg, bits, unit, raises) ==
    IF rstrip_zeros(bits) = "" THEN Ret(FloatZero(neg))
    ELSE IF Len(bits) + unit > 1024 THEN overflowed(neg, raises)
    ELSE Ret(PyFloat(neg, rstrip_zeros(bits), unit + Len(bits) - Len(rstrip_zeros(bits))))

\* the float of the digits got for a value of binary exponent e
float_of_bits(neg, got, m, e, raises) ==
    float_of_rounded(neg, IF rounds_up(got, m) THEN bin_inc(got.bits) ELSE got.bits,
                     e - Len(got.bits) + 1, raises)

\* the float nearest to (q.n / q.m) * 2^q.e: 53 digits, fewer below 2^-1022
float_of_scaled(neg, q, raises) ==
    IF q.e > 1023 THEN overflowed(neg, raises)
    ELSE IF q.e < 0 - 1075 THEN Ret(FloatZero(neg))
    ELSE float_of_bits(neg,
                       quotient_bits(q.n, q.m, "",
                                     IF q.e >= 0 - 1022 THEN 53 ELSE q.e + 1075),
                       q.m, q.e, raises)

\* the float nearest to d * 10^e10, for digits d without leading zeros
float_of_digits(neg, d, e10, raises) ==
    IF d = "" THEN Ret(FloatZero(neg))
    ELSE IF Len(d) + e10 > 310 THEN overflowed(neg, raises)
    ELSE IF Len(d) + e10 < 0 - 330 THEN Ret(FloatZero(neg))
    ELSE float_of_scaled(neg,
                         scaled(big_of_digits(d \o zeros(e10)),
                                big_of_digits("1" \o zeros(0 - e10))),
                         raises)

\* the float nearest to the decimal of the given digits times 10^e10: [exc, v]
float_of_decimal(neg, digits, e10, raises) ==
    float_of_digits(neg, lstrip_zeros(digits), e10, raises)

\* the value of the digits of an exponent; beyond eight digits every float is inf or zero
capped_nat(d) == IF Len(lstrip_zeros(d)) > 8 THEN 99999999 ELSE nat_of_str(lstrip_zeros(d))

\* the place after the run of digits that starts at i
digits_end(s, i) ==
    CHOOSE j \in i..(Len(s) + 1) : ~DigitAt(s, j) /\ \A k \in i..(j - 1) : DigitAt(s, k)

\* the place after [eE][-+]?\d+ at c, c itself when no exponent stands there
exponent_end(s, c) ==
    IF Ch(s, c) \notin {"e", "E"} THEN c
    ELSE IF Ch(s, c + 1) \in {"+", "-"}
    THEN (IF DigitAt(s, c + 2) THEN digits_end(s, c + 2) ELSE c)
    ELSE (IF DigitAt(s, c + 1) THEN digits_end(s, c + 1) ELSE c)

\* the value of the exponent s[c..d-1], 0 when d = c
exponent_value(s, c, d) ==
    IF d = c THEN 0
    ELSE IF Ch(s, c + 1) = "-" THEN 0 - capped_nat(SubSeq(s, c + 2, d - 1))
    ELSE IF Ch(s, c + 1) = "+" THEN capped_nat(SubSeq(s, c + 2, d - 1))
    ELSE capped_nat(SubSeq(s, c + 1, d - 1))

\* the float of integer digits s[a..b-1], fraction digits s[b+1..c-1] and exponent
\* s[c..d-1]
float_of_parts(s, neg, a, b, c, d) ==
    float_of_decimal(neg, Sub(s, a, b - 1) \o Sub(s, b + 1, c - 1),
                     exponent_value(s, c, d) - (IF c > b THEN c - b - 1 ELSE 0), FALSE)

(***************************************************************************)
(* json.loads.  A parse gives [ok, v, i, exc, text]: i is the place after  *)
(* the value.  When it is not ok, exc is the exception; for a              *)
(* JSONDecodeError text is its msg and i the place it is raised for, for   *)
(* another exception text is what str(e) gives.                            *)
(***************************************************************************)
JRaise(exc, text) == [ok |-> FALSE, v |-> JNull, i |-> 0, exc |-> exc, text |-> text]
JFail(msg, i) == [ok |-> FALSE, v |-> JNull, i |-> i, exc |-> "JSONDecodeError", text |-> msg]
JOk(v, i) == [ok |-> TRUE, v |-> v, i |-> i, exc |-> "", text |-> ""]

\* the whitespace between the tokens of a document
IsJsonSpace(c) == c \in {" ", "\t", "\n", "\r"}

RECURSIVE skip_ws(_, _)
skip_ws(s, i) == IF IsJsonSpace(Ch(s, i)) THEN skip_ws(s, i + 1) ELSE i

\* the int of the digits s[a..b-1]: int() refuses more than 4300 digits
json_int(s, neg, a, b) ==
    IF b - a > 4300
    THEN JRaise("ValueError",
                "Exceeds the limit (4300 digits) for integer string conversion: value has "
                    \o str_of_nat(b - a)
                    \o " digits; use sys.set_int_max_str_digits() to increase the limit")
    ELSE JOk(JInt(neg /\ SubSeq(s, a, b - 1) # "0", SubSeq(s, a, b - 1)), b)

\* the number of integer part s[a..b-1], fraction up to c and exponent up to d
number_value(s, neg, a, b, c, d) ==
    IF d = b THEN json_int(s, neg, a, b)
    ELSE JOk(float_of_parts(s, neg, a, b, c, d).v, d)

\* (\.\d+)? from the place b after the integer digits that start at a, then the
\* exponent; a sign that no digit follows is no value
number_fraction(s, neg, a, b, c) ==
    IF b = a THEN JFail("Expecting value", IF neg THEN a - 1 ELSE a)
    ELSE number_value(s, neg, a, b, c, exponent_end(s, c))

\* (0|[1-9]\d*) from a
number_integer(s, neg, a, b) ==
    number_fraction(s, neg, a, b,
                    IF Ch(s, b) = "." /\ DigitAt(s, b + 1) THEN digits_end(s, b + 1) ELSE b)

\* -?(0|[1-9]\d*)(\.\d+)?([eE][-+]?\d+)? at i
parse_number(s, i) ==
    IF Ch(s, i) = "-"
    THEN number_integer(s, TRUE, i + 1,
                        IF Ch(s, i + 1) = "0" THEN i + 2 ELSE digits_end(s, i + 1))
    ELSE number_integer(s, FALSE, i, IF Ch(s, i) = "0" THEN i + 1 ELSE digits_end(s, i))

\* the characters a string cannot hold unescaped: U+0001 .. U+001F
ControlChars == {SubSeq(Latin1, n, n) : n \in 1..31}

HexDigits == "0123456789abcdef"

\* whether the four characters from i are hexadecimal digits
IsHex4(s, i) == \A k \in i..(i + 3) : Ch(s, k) # "" /\ contains(HexDigits, lower_ch(Ch(s, k)))

\* the value of the hexadecimal digit c
HexVal(c) == find(HexDigits, lower_ch(c)) - 1

\* the code point the four hexadecimal digits from i write
hex4_value(s, i) ==
    HexVal(Ch(s, i)) * 4096 + HexVal(Ch(s, i + 1)) * 256
        + HexVal(Ch(s, i + 2)) * 16 + HexVal(Ch(s, i + 3))

\* a high and a low surrogate: the two halves of a character above U+FFFF
IsHighSurrogate(n) == n \in 55296..56319

IsLowSurrogate(n) == n \in 56320..57343

\* the character the surrogates hi and lo write together
joined_surrogates(hi, lo) == 65536 + (hi - 55296) * 1024 + (lo - 56320)

\* chr(n) as a str
str_of_code(n) == IF InAlphabet(n) THEN JStr(chr(n)) ELSE JWide(<<n>>)

\* the str a and the str b after it
text_cat(a, b) ==
    IF IsWide(a) \/ IsWide(b) THEN JWide(codes_of_str(a) \o codes_of_str(b))
    ELSE JStr(a.s \o b.s)

\* the character a backslash and c stand for, "" when c is no escape
escaped_char(c) ==
    CASE c = "\"" -> "\""
      [] c = "\\" -> "\\"
      [] c = "/" -> "/"
      [] c = "b" -> SubSeq(Latin1, 8, 8)
      [] c = "f" -> "\f"
      [] c = "n" -> "\n"
      [] c = "r" -> "\r"
      [] c = "t" -> "\t"
      [] OTHER -> ""

\* the number of backslashes in a row just before j, in a string whose first
\* character is at i
backslashes_before(s, i, j) ==
    j - 1 - MaxOf({i - 1} \cup {k \in i..(j - 1) : Ch(s, k) # "\\"})

\* whether the character at j follows the backslash of an escape: the backslashes
\* before it pair off from the left, and an odd one is left over
IsEscaped(s, i, j) ==
    j > i /\ Ch(s, j - 1) = "\\" /\ backslashes_before(s, i, j) % 2 = 1

\* whether an escape starts at j
EscapeAt(s, i, j) == Ch(s, j) = "\\" /\ ~IsEscaped(s, i, j)

\* whether an escape \uXXXX starts at j
UnicodeEscapeAt(s, i, j) == EscapeAt(s, i, j) /\ Ch(s, j + 1) = "u"

\* the place of the quote that closes the string, 0 when none does
closing_quote(s, i) ==
    MinOrZero({j \in i..Len(s) : Ch(s, j) = "\"" /\ ~IsEscaped(s, i, j)})

\* whether the escape that starts at j is one of those json reads: \uXXXX needs a
\* character after its four digits
ValidEscape(s, j) ==
    IF Ch(s, j + 1) = "u" THEN IsHex4(s, j + 2) /\ j + 5 < Len(s)
    ELSE escaped_char(Ch(s, j + 1)) # ""

\* whether the scan stops at j: a control character, or an escape json does not
\* read; a backslash that ends the document leaves the string unterminated
StopsAt(s, i, j) ==
    \/ Ch(s, j) \in ControlChars /\ ~IsEscaped(s, i, j)
    \/ EscapeAt(s, i, j) /\ j < Len(s) /\ ~ValidEscape(s, j)

\* the first place from i to e where the scan stops, 0 when it stops nowhere
first_stop(s, i, e) == MinOrZero({j \in i..e : StopsAt(s, i, j)})

\* the JSONDecodeError of the scan that stops at j
string_error(s, i, j) ==
    IF Ch(s, j) \in ControlChars /\ ~IsEscaped(s, i, j)
    THEN JFail("Invalid control character at", j)
    ELSE IF Ch(s, j + 1) = "u" THEN JFail("Invalid \\uXXXX escape", j + 1)
    ELSE JFail("Invalid \\escape", j)

\* whether the escape at j writes a low surrogate that the escape of a high one
\* just before it takes
IsTakenLow(s, i, j) ==
    /\ UnicodeEscapeAt(s, i, j) /\ IsLowSurrogate(hex4_value(s, j + 2))
    /\ j - 6 >= i /\ UnicodeEscapeAt(s, i, j - 6) /\ IsHighSurrogate(hex4_value(s, j - 4))

\* what the escape \uXXXX at j writes
unicode_piece(s, i, j) ==
    IF IsTakenLow(s, i, j) THEN JStr("")
    ELSE IF IsTakenLow(s, i, j + 6)
    THEN str_of_code(joined_surrogates(hex4_value(s, j + 2), hex4_value(s, j + 8)))
    ELSE str_of_code(hex4_value(s, j + 2))

\* whether the character at j is one of the four digits of an escape \uXXXX
InUnicodeEscape(s, i, j) == \E d \in 2..5 : j - d >= i /\ UnicodeEscapeAt(s, i, j - d)

\* what the character at j of a string adds to its value
piece(s, i, j) ==
    IF EscapeAt(s, i, j)
    THEN (IF Ch(s, j + 1) = "u" THEN unicode_piece(s, i, j)
          ELSE JStr(escaped_char(Ch(s, j + 1))))
    ELSE IF IsEscaped(s, i, j) \/ InUnicodeEscape(s, i, j) THEN JStr("")
    ELSE JStr(Ch(s, j))

\* whether the characters from a to b of a string whose first is at i are plain: no
\* escape holds one of them
IsPlain(s, i, a, b) == \A k \in Max(a - 5, i)..b : Ch(s, k) # "\\"

\* the value of the characters from a to b of a string whose first is at i
RECURSIVE string_value(_, _, _, _)
string_value(s, i, a, b) ==
    IF a > b THEN JStr("")
    ELSE IF IsPlain(s, i, a, b) THEN JStr(SubSeq(s, a, b))
    ELSE IF a = b THEN piece(s, i, a)
    ELSE text_cat(string_value(s, i, a, (a + b) \div 2),
                  string_value(s, i, (a + b) \div 2 + 1, b))

\* the string that ends at the closing quote e, given the place stop where the scan
\* stops before it
string_until(s, i, e, stop) ==
    IF stop # 0 THEN string_error(s, i, stop)
    ELSE IF e = 0 THEN JFail("Unterminated string starting at", i - 1)
    ELSE JOk(string_value(s, i, i, e - 1), e + 1)

\* the last place of the string whose closing quote is at e: the end of the
\* document when no quote closes it
string_end(s, e) == IF e = 0 THEN Len(s) ELSE e - 1

\* a string from the place i after its opening quote
scan_string(s, i) ==
    string_until(s, i, closing_quote(s, i),
                 first_stop(s, i, string_end(s, closing_quote(s, i))))

\* a string that opens at i
parse_string(s, i) == scan_string(s, i + 1)

\* sys.getrecursionlimit(): the default of the interpreter, CPython 3.11.  A frame
\* of Python code takes one level of it, and so does an object or an array for as
\* long as it is read
RecursionLimit == 1000

\* the calls json.loads has in progress when the scanner starts: loads,
\* JSONDecoder.decode and JSONDecoder.raw_decode
LoadsFrames == 3

RECURSIVE parse_value(_, _, _)
RECURSIVE parse_members(_, _, _, _, _)
RECURSIVE members_after_key(_, _, _, _, _)
RECURSIVE members_after_value(_, _, _, _, _)
RECURSIVE members_next(_, _, _, _, _)
RECURSIVE parse_items(_, _, _, _)
RECURSIVE items_after_value(_, _, _, _)
RECURSIVE items_next(_, _, _, _)
RECURSIVE object_from(_, _, _)
RECURSIVE array_from(_, _, _)

\* the members of an object from the key expected at i; depth is the number of
\* levels in use: the calls in progress and the objects and arrays open
parse_members(s, i, keys, vals, depth) ==
    IF Ch(s, i) # "\""
    THEN JFail("Expecting property name enclosed in double quotes", i)
    ELSE members_after_key(s, parse_string(s, i), keys, vals, depth)

\* from the key k parsed: the colon, then the value
members_after_key(s, k, keys, vals, depth) ==
    IF ~k.ok THEN k
    ELSE IF Ch(s, skip_ws(s, k.i)) # ":"
    THEN JFail("Expecting ':' delimiter", skip_ws(s, k.i))
    ELSE members_after_value(s, parse_value(s, skip_ws(s, skip_ws(s, k.i) + 1), depth),
                             Append(keys, k.v), vals, depth)

\* from the value v parsed
members_after_value(s, v, keys, vals, depth) ==
    IF ~v.ok THEN v ELSE members_next(s, skip_ws(s, v.i), keys, Append(vals, v.v), depth)

\* at e: the end of the object, or a comma and the next member
members_next(s, e, keys, vals, depth) ==
    IF Ch(s, e) = "}" THEN JOk(JObj(keys, vals), e + 1)
    ELSE IF Ch(s, e) = "," THEN parse_members(s, skip_ws(s, e + 1), keys, vals, depth)
    ELSE JFail("Expecting ',' delimiter", e)

\* the items of an array from the value expected at i
parse_items(s, i, items, depth) ==
    items_after_value(s, parse_value(s, i, depth), items, depth)

\* from the value v parsed
items_after_value(s, v, items, depth) ==
    IF ~v.ok THEN v ELSE items_next(s, skip_ws(s, v.i), Append(items, v.v), depth)

\* at e: the end of the array, or a comma and the next item
items_next(s, e, items, depth) ==
    IF Ch(s, e) = "]" THEN JOk(JArr(items), e + 1)
    ELSE IF Ch(s, e) = "," THEN parse_items(s, skip_ws(s, e + 1), items, depth)
    ELSE JFail("Expecting ',' delimiter", e)

\* an object whose first token after { is at j; depth counts the object
object_from(s, j, depth) ==
    IF depth >= RecursionLimit
    THEN JRaise("RecursionError",
                "maximum recursion depth exceeded while decoding a JSON object "
                    \o "from a unicode string")
    ELSE IF Ch(s, j) = "}" THEN JOk(JObj(<<>>, <<>>), j + 1)
    ELSE parse_members(s, j, <<>>, <<>>, depth)

\* an array whose first token after [ is at j; depth counts the array
array_from(s, j, depth) ==
    IF depth >= RecursionLimit
    THEN JRaise("RecursionError",
                "maximum recursion depth exceeded while decoding a JSON array "
                    \o "from a unicode string")
    ELSE IF Ch(s, j) = "]" THEN JOk(JArr(<<>>), j + 1)
    ELSE parse_items(s, j, <<>>, depth)

\* the value at i, with depth levels in use
parse_value(s, i, depth) ==
    IF Ch(s, i) = "{" THEN object_from(s, skip_ws(s, i + 1), depth + 1)
    ELSE IF Ch(s, i) = "[" THEN array_from(s, skip_ws(s, i + 1), depth + 1)
    ELSE IF Ch(s, i) = "\"" THEN parse_string(s, i)
    ELSE IF Sub(s, i, i + 3) = "null" THEN JOk(JNull, i + 4)
    ELSE IF Sub(s, i, i + 3) = "true" THEN JOk(JBool(TRUE), i + 4)
    ELSE IF Sub(s, i, i + 4) = "false" THEN JOk(JBool(FALSE), i + 5)
    ELSE IF Sub(s, i, i + 2) = "NaN" THEN JOk(FloatNaN, i + 3)
    ELSE IF Sub(s, i, i + 7) = "Infinity" THEN JOk(FloatInf(FALSE), i + 8)
    ELSE IF Sub(s, i, i + 8) = "-Infinity" THEN JOk(FloatInf(TRUE), i + 9)
    ELSE IF Ch(s, i) = "-" \/ DigitAt(s, i) THEN parse_number(s, i)
    ELSE JFail("Expecting value", i)

\* the places before i where a line of s ends
newlines_before(s, i) == {k \in 1..(i - 1) : Ch(s, k) = "\n"}

\* str(JSONDecodeError(msg, s, i - 1)): the message with the line, the column and
\* the index of the place i
decode_error_text(msg, s, i) ==
    msg \o ": line " \o str_of_nat(Cardinality(newlines_before(s, i)) + 1)
        \o " column " \o str_of_nat(i - MaxOf({0} \cup newlines_before(s, i)))
        \o " (char " \o str_of_nat(i - 1) \o ")"

\* the exception of a parse that is not ok, with the text str(e) gives
load_error(s, r) ==
    [ok |-> FALSE, v |-> JNull, exc |-> r.exc,
     text |-> IF r.exc = "JSONDecodeError" THEN decode_error_text(r.text, s, r.i)
              ELSE r.text]

\* the document, when the value r parsed is all that s holds
loaded_value(s, r) ==
    IF ~r.ok THEN load_error(s, r)
    ELSE IF skip_ws(s, r.i) # Len(s) + 1
    THEN load_error(s, JFail("Extra data", skip_ws(s, r.i)))
    ELSE [ok |-> TRUE, v |-> r.v, exc |-> "", text |-> ""]

\* json.loads(s), called where frames calls are in progress, that of the caller
\* included: the frames of Python code and the calls of C functions that the
\* recursion limit counts.  [ok, v, exc, text]; exc is JSONDecodeError, the
\* ValueError of an int of more than 4300 digits, or the RecursionError of a
\* nesting that reaches the limit
json_loads(s, frames) ==
    loaded_value(s, parse_value(s, skip_ws(s, 1), frames + LoadsFrames))

(***************************************************************************)
(* Python's operations on a decoded JSON value.                            *)
(***************************************************************************)
\* the slices of n items of the sequence cs
slices(cs, n) == {SubSeq(cs, i, i + n - 1) : i \in 1..(Len(cs) - n + 1)}

\* type(v).__name__
type_name(v) ==
    CASE v.t = "null" -> "NoneType"
      [] v.t = "arr" -> "list"
      [] v.t = "obj" -> "dict"
      [] OTHER -> v.t

\* k in data
py_in(k, data) ==
    CASE data.t = "obj" -> Ret(\E i \in 1..Len(data.keys) : data.keys[i] = JStr(k))
      [] data.t = "arr" -> Ret(\E i \in 1..Len(data.items) : data.items[i] = JStr(k))
      [] data.t = "str" -> Ret(IF IsWide(data) THEN codes_of(k) \in slices(data.codes, Len(k))
                               ELSE contains(data.s, k))
      [] OTHER -> RaiseWith("TypeError",
                            JStr("argument of type '" \o type_name(data)
                                     \o "' is not iterable"))

\* data[k], for a data that k is in: a repeated key keeps its last value
py_getitem(data, k) ==
    IF data.t = "obj"
    THEN Ret(data.vals[MaxOf({i \in 1..Len(data.keys) : data.keys[i] = JStr(k)})])
    ELSE IF data.t = "arr"
    THEN RaiseWith("TypeError", JStr("list indices must be integers or slices, not str"))
    ELSE RaiseWith("TypeError", JStr("string indices must be integers, not 'str'"))

(***************************************************************************)
(* repr() of a decoded value, as an f-string and the message of an         *)
(* exception print it.                                                     *)
(***************************************************************************)
\* the ranges of the characters c above U+00FF with c.isprintable() false
\* (Unicode 14.0)
NonPrintableRanges ==
    {<<888, 889>>, <<896, 899>>, <<907, 907>>, <<909, 909>>, <<930, 930>>,
     <<1328, 1328>>, <<1367, 1368>>, <<1419, 1420>>, <<1424, 1424>>, <<1480, 1487>>,
     <<1515, 1518>>, <<1525, 1541>>, <<1564, 1564>>, <<1757, 1757>>, <<1806, 1807>>,
     <<1867, 1868>>, <<1970, 1983>>, <<2043, 2044>>, <<2094, 2095>>, <<2111, 2111>>,
     <<2140, 2141>>, <<2143, 2143>>, <<2155, 2159>>, <<2191, 2199>>, <<2274, 2274>>,
     <<2436, 2436>>, <<2445, 2446>>, <<2449, 2450>>, <<2473, 2473>>, <<2481, 2481>>,
     <<2483, 2485>>, <<2490, 2491>>, <<2501, 2502>>, <<2505, 2506>>, <<2511, 2518>>,
     <<2520, 2523>>, <<2526, 2526>>, <<2532, 2533>>, <<2559, 2560>>, <<2564, 2564>>,
     <<2571, 2574>>, <<2577, 2578>>, <<2601, 2601>>, <<2609, 2609>>, <<2612, 2612>>,
     <<2615, 2615>>, <<2618, 2619>>, <<2621, 2621>>, <<2627, 2630>>, <<2633, 2634>>,
     <<2638, 2640>>, <<2642, 2648>>, <<2653, 2653>>, <<2655, 2661>>, <<2679, 2688>>,
     <<2692, 2692>>, <<2702, 2702>>, <<2706, 2706>>, <<2729, 2729>>, <<2737, 2737>>,
     <<2740, 2740>>, <<2746, 2747>>, <<2758, 2758>>, <<2762, 2762>>, <<2766, 2767>>,
     <<2769, 2783>>, <<2788, 2789>>, <<2802, 2808>>, <<2816, 2816>>, <<2820, 2820>>,
     <<2829, 2830>>, <<2833, 2834>>, <<2857, 2857>>, <<2865, 2865>>, <<2868, 2868>>,
     <<2874, 2875>>, <<2885, 2886>>, <<2889, 2890>>, <<2894, 2900>>, <<2904, 2907>>,
     <<2910, 2910>>, <<2916, 2917>>, <<2936, 2945>>, <<2948, 2948>>, <<2955, 2957>>,
     <<2961, 2961>>, <<2966, 2968>>, <<2971, 2971>>, <<2973, 2973>>, <<2976, 2978>>,
     <<2981, 2983>>, <<2987, 2989>>, <<3002, 3005>>, <<3011, 3013>>, <<3017, 3017>>,
     <<3022, 3023>>, <<3025, 3030>>, <<3032, 3045>>, <<3067, 3071>>, <<3085, 3085>>,
     <<3089, 3089>>, <<3113, 3113>>, <<3130, 3131>>, <<3141, 3141>>, <<3145, 3145>>,
     <<3150, 3156>>, <<3159, 3159>>, <<3163, 3164>>, <<3166, 3167>>, <<3172, 3173>>,
     <<3184, 3190>>, <<3213, 3213>>, <<3217, 3217>>, <<3241, 3241>>, <<3252, 3252>>,
     <<3258, 3259>>, <<3269, 3269>>, <<3273, 3273>>, <<3278, 3284>>, <<3287, 3292>>,
     <<3295, 3295>>, <<3300, 3301>>, <<3312, 3312>>, <<3315, 3327>>, <<3341, 3341>>,
     <<3345, 3345>>, <<3397, 3397>>, <<3401, 3401>>, <<3408, 3411>>, <<3428, 3429>>,
     <<3456, 3456>>, <<3460, 3460>>, <<3479, 3481>>, <<3506, 3506>>, <<3516, 3516>>,
     <<3518, 3519>>, <<3527, 3529>>, <<3531, 3534>>, <<3541, 3541>>, <<3543, 3543>>,
     <<3552, 3557>>, <<3568, 3569>>, <<3573, 3584>>, <<3643, 3646>>, <<3676, 3712>>,
     <<3715, 3715>>, <<3717, 3717>>, <<3723, 3723>>, <<3748, 3748>>, <<3750, 3750>>,
     <<3774, 3775>>, <<3781, 3781>>, <<3783, 3783>>, <<3790, 3791>>, <<3802, 3803>>,
     <<3808, 3839>>, <<3912, 3912>>, <<3949, 3952>>, <<3992, 3992>>, <<4029, 4029>>,
     <<4045, 4045>>, <<4059, 4095>>, <<4294, 4294>>, <<4296, 4300>>, <<4302, 4303>>,
     <<4681, 4681>>, <<4686, 4687>>, <<4695, 4695>>, <<4697, 4697>>, <<4702, 4703>>,
     <<4745, 4745>>, <<4750, 4751>>, <<4785, 4785>>, <<4790, 4791>>, <<4799, 4799>>,
     <<4801, 4801>>, <<4806, 4807>>, <<4823, 4823>>, <<4881, 4881>>, <<4886, 4887>>,
     <<4955, 4956>>, <<4989, 4991>>, <<5018, 5023>>, <<5110, 5111>>, <<5118, 5119>>,
     <<5760, 5760>>, <<5789, 5791>>, <<5881, 5887>>, <<5910, 5918>>, <<5943, 5951>>,
     <<5972, 5983>>, <<5997, 5997>>, <<6001, 6001>>, <<6004, 6015>>, <<6110, 6111>>,
     <<6122, 6127>>, <<6138, 6143>>, <<6158, 6158>>, <<6170, 6175>>, <<6265, 6271>>,
     <<6315, 6319>>, <<6390, 6399>>, <<6431, 6431>>, <<6444, 6447>>, <<6460, 6463>>,
     <<6465, 6467>>, <<6510, 6511>>, <<6517, 6527>>, <<6572, 6575>>, <<6602, 6607>>,
     <<6619, 6621>>, <<6684, 6685>>, <<6751, 6751>>, <<6781, 6782>>, <<6794, 6799>>,
     <<6810, 6815>>, <<6830, 6831>>, <<6863, 6911>>, <<6989, 6991>>, <<7039, 7039>>,
     <<7156, 7163>>, <<7224, 7226>>, <<7242, 7244>>, <<7305, 7311>>, <<7355, 7356>>,
     <<7368, 7375>>, <<7419, 7423>>, <<7958, 7959>>, <<7966, 7967>>, <<8006, 8007>>,
     <<8014, 8015>>, <<8024, 8024>>, <<8026, 8026>>, <<8028, 8028>>, <<8030, 8030>>,
     <<8062, 8063>>, <<8117, 8117>>, <<8133, 8133>>, <<8148, 8149>>, <<8156, 8156>>,
     <<8176, 8177>>, <<8181, 8181>>, <<8191, 8207>>, <<8232, 8239>>, <<8287, 8303>>,
     <<8306, 8307>>, <<8335, 8335>>, <<8349, 8351>>, <<8385, 8399>>, <<8433, 8447>>,
     <<8588, 8591>>, <<9255, 9279>>, <<9291, 9311>>, <<11124, 11125>>,
     <<11158, 11158>>, <<11508, 11512>>, <<11558, 11558>>, <<11560, 11564>>,
     <<11566, 11567>>, <<11624, 11630>>, <<11633, 11646>>, <<11671, 11679>>,
     <<11687, 11687>>, <<11695, 11695>>, <<11703, 11703>>, <<11711, 11711>>,
     <<11719, 11719>>, <<11727, 11727>>, <<11735, 11735>>, <<11743, 11743>>,
     <<11870, 11903>>, <<11930, 11930>>, <<12020, 12031>>, <<12246, 12271>>,
     <<12284, 12288>>, <<12352, 12352>>, <<12439, 12440>>, <<12544, 12548>>,
     <<12592, 12592>>, <<12687, 12687>>, <<12772, 12783>>, <<12831, 12831>>,
     <<42125, 42127>>, <<42183, 42191>>, <<42540, 42559>>, <<42744, 42751>>,
     <<42955, 42959>>, <<42962, 42962>>, <<42964, 42964>>, <<42970, 42993>>,
     <<43053, 43055>>, <<43066, 43071>>, <<43128, 43135>>, <<43206, 43213>>,
     <<43226, 43231>>, <<43348, 43358>>, <<43389, 43391>>, <<43470, 43470>>,
     <<43482, 43485>>, <<43519, 43519>>, <<43575, 43583>>, <<43598, 43599>>,
     <<43610, 43611>>, <<43715, 43738>>, <<43767, 43776>>, <<43783, 43784>>,
     <<43791, 43792>>, <<43799, 43807>>, <<43815, 43815>>, <<43823, 43823>>,
     <<43884, 43887>>, <<44014, 44015>>, <<44026, 44031>>, <<55204, 55215>>,
     <<55239, 55242>>, <<55292, 63743>>, <<64110, 64111>>, <<64218, 64255>>,
     <<64263, 64274>>, <<64280, 64284>>, <<64311, 64311>>, <<64317, 64317>>,
     <<64319, 64319>>, <<64322, 64322>>, <<64325, 64325>>, <<64451, 64466>>,
     <<64912, 64913>>, <<64968, 64974>>, <<64976, 65007>>, <<65050, 65055>>,
     <<65107, 65107>>, <<65127, 65127>>, <<65132, 65135>>, <<65141, 65141>>,
     <<65277, 65280>>, <<65471, 65473>>, <<65480, 65481>>, <<65488, 65489>>,
     <<65496, 65497>>, <<65501, 65503>>, <<65511, 65511>>, <<65519, 65531>>,
     <<65534, 65535>>, <<65548, 65548>>, <<65575, 65575>>, <<65595, 65595>>,
     <<65598, 65598>>, <<65614, 65615>>, <<65630, 65663>>, <<65787, 65791>>,
     <<65795, 65798>>, <<65844, 65846>>, <<65935, 65935>>, <<65949, 65951>>,
     <<65953, 65999>>, <<66046, 66175>>, <<66205, 66207>>, <<66257, 66271>>,
     <<66300, 66303>>, <<66340, 66348>>, <<66379, 66383>>, <<66427, 66431>>,
     <<66462, 66462>>, <<66500, 66503>>, <<66518, 66559>>, <<66718, 66719>>,
     <<66730, 66735>>, <<66772, 66775>>, <<66812, 66815>>, <<66856, 66863>>,
     <<66916, 66926>>, <<66939, 66939>>, <<66955, 66955>>, <<66963, 66963>>,
     <<66966, 66966>>, <<66978, 66978>>, <<66994, 66994>>, <<67002, 67002>>,
     <<67005, 67071>>, <<67383, 67391>>, <<67414, 67423>>, <<67432, 67455>>,
     <<67462, 67462>>, <<67505, 67505>>, <<67515, 67583>>, <<67590, 67591>>,
     <<67593, 67593>>, <<67638, 67638>>, <<67641, 67643>>, <<67645, 67646>>,
     <<67670, 67670>>, <<67743, 67750>>, <<67760, 67807>>, <<67827, 67827>>,
     <<67830, 67834>>, <<67868, 67870>>, <<67898, 67902>>, <<67904, 67967>>,
     <<68024, 68027>>, <<68048, 68049>>, <<68100, 68100>>, <<68103, 68107>>,
     <<68116, 68116>>, <<68120, 68120>>, <<68150, 68151>>, <<68155, 68158>>,
     <<68169, 68175>>, <<68185, 68191>>, <<68256, 68287>>, <<68327, 68330>>,
     <<68343, 68351>>, <<68406, 68408>>, <<68438, 68439>>, <<68467, 68471>>,
     <<68498, 68504>>, <<68509, 68520>>, <<68528, 68607>>, <<68681, 68735>>,
     <<68787, 68799>>, <<68851, 68857>>, <<68904, 68911>>, <<68922, 69215>>,
     <<69247, 69247>>, <<69290, 69290>>, <<69294, 69295>>, <<69298, 69375>>,
     <<69416, 69423>>, <<69466, 69487>>, <<69514, 69551>>, <<69580, 69599>>,
     <<69623, 69631>>, <<69710, 69713>>, <<69750, 69758>>, <<69821, 69821>>,
     <<69827, 69839>>, <<69865, 69871>>, <<69882, 69887>>, <<69941, 69941>>,
     <<69960, 69967>>, <<70007, 70015>>, <<70112, 70112>>, <<70133, 70143>>,
     <<70162, 70162>>, <<70207, 70271>>, <<70279, 70279>>, <<70281, 70281>>,
     <<70286, 70286>>, <<70302, 70302>>, <<70314, 70319>>, <<70379, 70383>>,
     <<70394, 70399>>, <<70404, 70404>>, <<70413, 70414>>, <<70417, 70418>>,
     <<70441, 70441>>, <<70449, 70449>>, <<70452, 70452>>, <<70458, 70458>>,
     <<70469, 70470>>, <<70473, 70474>>, <<70478, 70479>>, <<70481, 70486>>,
     <<70488, 70492>>, <<70500, 70501>>, <<70509, 70511>>, <<70517, 70655>>,
     <<70748, 70748>>, <<70754, 70783>>, <<70856, 70863>>, <<70874, 71039>>,
     <<71094, 71095>>, <<71134, 71167>>, <<71237, 71247>>, <<71258, 71263>>,
     <<71277, 71295>>, <<71354, 71359>>, <<71370, 71423>>, <<71451, 71452>>,
     <<71468, 71471>>, <<71495, 71679>>, <<71740, 71839>>, <<71923, 71934>>,
     <<71943, 71944>>, <<71946, 71947>>, <<71956, 71956>>, <<71959, 71959>>,
     <<71990, 71990>>, <<71993, 71994>>, <<72007, 72015>>, <<72026, 72095>>,
     <<72104, 72105>>, <<72152, 72153>>, <<72165, 72191>>, <<72264, 72271>>,
     <<72355, 72367>>, <<72441, 72703>>, <<72713, 72713>>, <<72759, 72759>>,
     <<72774, 72783>>, <<72813, 72815>>, <<72848, 72849>>, <<72872, 72872>>,
     <<72887, 72959>>, <<72967, 72967>>, <<72970, 72970>>, <<73015, 73017>>,
     <<73019, 73019>>, <<73022, 73022>>, <<73032, 73039>>, <<73050, 73055>>,
     <<73062, 73062>>, <<73065, 73065>>, <<73103, 73103>>, <<73106, 73106>>,
     <<73113, 73119>>, <<73130, 73439>>, <<73465, 73647>>, <<73649, 73663>>,
     <<73714, 73726>>, <<74650, 74751>>, <<74863, 74863>>, <<74869, 74879>>,
     <<75076, 77711>>, <<77811, 77823>>, <<78895, 82943>>, <<83527, 92159>>,
     <<92729, 92735>>, <<92767, 92767>>, <<92778, 92781>>, <<92863, 92863>>,
     <<92874, 92879>>, <<92910, 92911>>, <<92918, 92927>>, <<92998, 93007>>,
     <<93018, 93018>>, <<93026, 93026>>, <<93048, 93052>>, <<93072, 93759>>,
     <<93851, 93951>>, <<94027, 94030>>, <<94088, 94094>>, <<94112, 94175>>,
     <<94181, 94191>>, <<94194, 94207>>, <<100344, 100351>>, <<101590, 101631>>,
     <<101641, 110575>>, <<110580, 110580>>, <<110588, 110588>>, <<110591, 110591>>,
     <<110883, 110927>>, <<110931, 110947>>, <<110952, 110959>>, <<111356, 113663>>,
     <<113771, 113775>>, <<113789, 113791>>, <<113801, 113807>>, <<113818, 113819>>,
     <<113824, 118527>>, <<118574, 118575>>, <<118599, 118607>>, <<118724, 118783>>,
     <<119030, 119039>>, <<119079, 119080>>, <<119155, 119162>>, <<119275, 119295>>,
     <<119366, 119519>>, <<119540, 119551>>, <<119639, 119647>>, <<119673, 119807>>,
     <<119893, 119893>>, <<119965, 119965>>, <<119968, 119969>>, <<119971, 119972>>,
     <<119975, 119976>>, <<119981, 119981>>, <<119994, 119994>>, <<119996, 119996>>,
     <<120004, 120004>>, <<120070, 120070>>, <<120075, 120076>>, <<120085, 120085>>,
     <<120093, 120093>>, <<120122, 120122>>, <<120127, 120127>>, <<120133, 120133>>,
     <<120135, 120137>>, <<120145, 120145>>, <<120486, 120487>>, <<120780, 120781>>,
     <<121484, 121498>>, <<121504, 121504>>, <<121520, 122623>>, <<122655, 122879>>,
     <<122887, 122887>>, <<122905, 122906>>, <<122914, 122914>>, <<122917, 122917>>,
     <<122923, 123135>>, <<123181, 123183>>, <<123198, 123199>>, <<123210, 123213>>,
     <<123216, 123535>>, <<123567, 123583>>, <<123642, 123646>>, <<123648, 124895>>,
     <<124903, 124903>>, <<124908, 124908>>, <<124911, 124911>>, <<124927, 124927>>,
     <<125125, 125126>>, <<125143, 125183>>, <<125260, 125263>>, <<125274, 125277>>,
     <<125280, 126064>>, <<126133, 126208>>, <<126270, 126463>>, <<126468, 126468>>,
     <<126496, 126496>>, <<126499, 126499>>, <<126501, 126502>>, <<126504, 126504>>,
     <<126515, 126515>>, <<126520, 126520>>, <<126522, 126522>>, <<126524, 126529>>,
     <<126531, 126534>>, <<126536, 126536>>, <<126538, 126538>>, <<126540, 126540>>,
     <<126544, 126544>>, <<126547, 126547>>, <<126549, 126550>>, <<126552, 126552>>,
     <<126554, 126554>>, <<126556, 126556>>, <<126558, 126558>>, <<126560, 126560>>,
     <<126563, 126563>>, <<126565, 126566>>, <<126571, 126571>>, <<126579, 126579>>,
     <<126584, 126584>>, <<126589, 126589>>, <<126591, 126591>>, <<126602, 126602>>,
     <<126620, 126624>>, <<126628, 126628>>, <<126634, 126634>>, <<126652, 126703>>,
     <<126706, 126975>>, <<127020, 127023>>, <<127124, 127135>>, <<127151, 127152>>,
     <<127168, 127168>>, <<127184, 127184>>, <<127222, 127231>>, <<127406, 127461>>,
     <<127491, 127503>>, <<127548, 127551>>, <<127561, 127567>>, <<127570, 127583>>,
     <<127590, 127743>>, <<128728, 128732>>, <<128749, 128751>>, <<128765, 128767>>,
     <<128884, 128895>>, <<128985, 128991>>, <<129004, 129007>>, <<129009, 129023>>,
     <<129036, 129039>>, <<129096, 129103>>, <<129114, 129119>>, <<129160, 129167>>,
     <<129198, 129199>>, <<129202, 129279>>, <<129620, 129631>>, <<129646, 129647>>,
     <<129653, 129655>>, <<129661, 129663>>, <<129671, 129679>>, <<129709, 129711>>,
     <<129723, 129727>>, <<129734, 129743>>, <<129754, 129759>>, <<129768, 129775>>,
     <<129783, 129791>>, <<129939, 129939>>, <<129995, 130031>>, <<130042, 131071>>,
     <<173792, 173823>>, <<177977, 177983>>, <<178206, 178207>>, <<183970, 183983>>,
     <<191457, 194559>>, <<195102, 196607>>, <<201547, 917759>>, <<918000, 1114111>>}

\* chr(n).isprintable()
IsPrintable(n) ==
    IF n < 256 THEN n \in (32..126) \cup (161..172) \cup (174..255)
    ELSE \A r \in NonPrintableRanges : n < r[1] \/ n > r[2]

\* n in hexadecimal, in width digits
RECURSIVE hex_of(_, _)
hex_of(n, width) ==
    IF width = 0 THEN ""
    ELSE hex_of(n \div 16, width - 1) \o SubSeq(HexDigits, (n % 16) + 1, (n % 16) + 1)

\* what repr writes for chr(n) in a string delimited by chr(quote)
repr_char(n, quote) ==
    IF n = quote \/ n = 92 THEN JStr("\\" \o chr(n))
    ELSE IF n = 9 THEN JStr("\\t")
    ELSE IF n = 10 THEN JStr("\\n")
    ELSE IF n = 13 THEN JStr("\\r")
    ELSE IF IsPrintable(n) THEN str_of_code(n)
    ELSE IF n < 256 THEN JStr("\\x" \o hex_of(n, 2))
    ELSE IF n < 65536 THEN JStr("\\u" \o hex_of(n, 4))
    ELSE JStr("\\U" \o hex_of(n, 8))

\* what repr writes for the characters of the code points cs
RECURSIVE repr_chars(_, _)
repr_chars(cs, quote) ==
    IF cs = <<>> THEN JStr("")
    ELSE IF Len(cs) = 1 THEN repr_char(cs[1], quote)
    ELSE text_cat(repr_chars(SubSeq(cs, 1, Len(cs) \div 2), quote),
                  repr_chars(SubSeq(cs, Len(cs) \div 2 + 1, Len(cs)), quote))

\* the quote repr delimits a string with: " when the string holds ' and no "
repr_quote(cs) ==
    IF (\E k \in 1..Len(cs) : cs[k] = 39) /\ ~(\E k \in 1..Len(cs) : cs[k] = 34)
    THEN 34 ELSE 39

\* the characters of the code points cs between two chr(quote)
quoted(cs, quote) ==
    text_cat(JStr(chr(quote)), text_cat(repr_chars(cs, quote), JStr(chr(quote))))

\* repr(v) of a str
str_repr(v) == quoted(codes_of_str(v), repr_quote(codes_of_str(v)))

\* a * k + c, for 0 < k <= 65536 and 0 <= c < k
big_times_plus(a, k, c) == with_carry(big_times_part(a, k, 1, Len(a), c))

\* a * k, for 0 <= k <= 65536
big_times_nat(a, k) == IF k = 0 THEN <<>> ELSE big_times(a, k)

\* the value of the binary numeral b, for Len(b) <= 13
RECURSIVE nat_of_bits(_)
nat_of_bits(b) ==
    IF b = "" THEN 0
    ELSE 2 * nat_of_bits(SubSeq(b, 1, Len(b) - 1))
             + (IF SubSeq(b, Len(b), Len(b)) = "1" THEN 1 ELSE 0)

\* the natural the binary numeral b writes, thirteen binary digits at a time
RECURSIVE big_of_bits(_)
big_of_bits(b) ==
    IF b = "" THEN <<>>
    ELSE IF Len(b) <= 13 THEN big_norm(<<nat_of_bits(b)>>)
    ELSE big_times_plus(big_of_bits(SubSeq(b, 1, Len(b) - 13)), 8192,
                        nat_of_bits(SubSeq(b, Len(b) - 12, Len(b))))

\* 10^k, for 0 <= k <= 3
pow10(k) == CASE k = 0 -> 1 [] k = 1 -> 10 [] k = 2 -> 100 [] OTHER -> 1000

\* a * 10^k: a limb is four decimal digits
big_times_pow10(a, k) ==
    IF a = <<>> THEN <<>>
    ELSE [i \in 1..(k \div 4) |-> 0] \o big_times(a, pow10(k % 4))

\* the numerator and the denominator of the finite float f without its sign
float_numerator(f) ==
    IF f.exp >= 0 THEN shift(big_of_bits(f.mantissa), f.exp) ELSE big_of_bits(f.mantissa)

float_denominator(f) == IF f.exp < 0 THEN shift(<<1>>, 0 - f.exp) ELSE <<1>>

\* n / d < 10^k
below_pow10(n, d, k) ==
    IF k >= 0 THEN big_cmp(n, big_times_pow10(d, k)) < 0
    ELSE big_cmp(big_times_pow10(n, 0 - k), d) < 0

\* the k with 10^(k-1) <= n / d < 10^k, for 2^(e-1) <= n / d < 2^e: k is near
\* e * log10(2)
decimal_point(n, d, e) ==
    CHOOSE k \in ((e * 30103) \div 100000 - 2)..((e * 30103) \div 100000 + 2) :
        below_pow10(n, d, k) /\ ~below_pow10(n, d, k - 1)

\* the decimal digit q with q * b <= r < (q + 1) * b, for r < 10 * b
digit_of(r, b) ==
    CHOOSE q \in 0..9 :
        big_cmp(big_times_nat(b, q), r) <= 0 /\ big_cmp(r, big_times(b, q + 1)) < 0

RECURSIVE decimal_digits(_, _, _, _)
RECURSIVE digits_after(_, _, _, _, _)

\* the decimal digits of r / b after the point, for r < b: up to count of them,
\* fewer when nothing remains: [digits, r]
decimal_digits(r, b, digits, count) ==
    IF count = 0 \/ r = <<>> THEN [digits |-> digits, r |-> r]
    ELSE digits_after(big_times(r, 10), b, digits, count, digit_of(big_times(r, 10), b))

\* from the digit q of r / b
digits_after(r, b, digits, count, q) ==
    decimal_digits(big_sub(r, big_times_nat(b, q)), b, digits \o str_of_nat(q), count - 1)

\* the decimal numeral c plus one
RECURSIVE dec_inc(_)
dec_inc(c) ==
    IF c = "" THEN "1"
    ELSE IF SubSeq(c, Len(c), Len(c)) = "9" THEN dec_inc(SubSeq(c, 1, Len(c) - 1)) \o "0"
    ELSE SubSeq(c, 1, Len(c) - 1) \o str_of_nat(DigitVal(SubSeq(c, Len(c), Len(c))) + 1)

\* whether the decimal c * 10^e10 is read as the float f
reads_back(f, c, e10) == float_of_decimal(f.neg, c, e10, FALSE).v = f

\* whether the digits of g after the first n are above the half of a unit of the
\* digit n, or are the half and the digit n is odd
rounds_to_upper(g, n) ==
    LET next == DigitVal(SubSeq(g.digits, n + 1, n + 1))
        rest == rstrip_zeros(SubSeq(g.digits, n + 2, Len(g.digits))) # "" \/ g.r # <<>>
    IN  \/ next > 5
        \/ next = 5 /\ rest
        \/ next = 5 /\ DigitVal(SubSeq(g.digits, n, n)) % 2 = 1

\* the one of the decimals lo and lo + 1 of n digits that is read as f, the nearer
\* to f when both are, "" when none is
nearest_read_back(f, g, k, n, lo) ==
    IF reads_back(f, lo, k - n) /\ reads_back(f, dec_inc(lo), k - n)
    THEN (IF rounds_to_upper(g, n) THEN dec_inc(lo) ELSE lo)
    ELSE IF reads_back(f, lo, k - n) THEN lo
    ELSE IF reads_back(f, dec_inc(lo), k - n) THEN dec_inc(lo)
    ELSE ""

\* the decimal of n digits repr can write for f, "" when none is read as f: g holds
\* the digits of f, k is the place of its point
digits_at(f, g, k, n) ==
    IF Len(g.digits) <= n /\ g.r = <<>> THEN g.digits
    ELSE nearest_read_back(f, g, k, n, SubSeq(g.digits, 1, n))

\* the shortest decimal that is read as f: [digits, point], the value being
\* 0.digits * 10^point
RECURSIVE shortest_decimal(_, _, _, _)
shortest_decimal(f, g, k, n) ==
    IF digits_at(f, g, k, n) = "" THEN shortest_decimal(f, g, k, n + 1)
    ELSE [digits |-> rstrip_zeros(digits_at(f, g, k, n)),
          point |-> k + Max(Len(digits_at(f, g, k, n)) - n, 0)]

\* the shortest decimal of the float n / d, whose point is at k
shortest_of(f, n, d, k) ==
    shortest_decimal(f,
                     IF k >= 0 THEN decimal_digits(n, big_times_pow10(d, k), "", 18)
                     ELSE decimal_digits(big_times_pow10(n, 0 - k), d, "", 18),
                     k, 1)

\* the exponent of repr's scientific form: a sign and two digits or more
exponent_text(e) ==
    (IF e < 0 THEN "-" ELSE "+")
        \o (IF e > 0 - 10 /\ e < 10 THEN "0" ELSE "")
        \o str_of_nat(IF e < 0 THEN 0 - e ELSE e)

\* the digits ds with the point at the place point: scientific below 0.0001 and
\* from 1e16
repr_of_digits(ds, point) ==
    IF point <= 0 - 4 \/ point > 16
    THEN SubSeq(ds, 1, 1) \o (IF Len(ds) > 1 THEN "." \o SubSeq(ds, 2, Len(ds)) ELSE "")
             \o "e" \o exponent_text(point - 1)
    ELSE IF point <= 0 THEN "0." \o zeros(0 - point) \o ds
    ELSE IF point >= Len(ds) THEN ds \o zeros(point - Len(ds)) \o ".0"
    ELSE SubSeq(ds, 1, point) \o "." \o SubSeq(ds, point + 1, Len(ds))

\* repr of the shortest decimal q
repr_of_shortest(q) == repr_of_digits(q.digits, q.point)

\* repr(f) of a float: the shortest decimal that is read as f
float_repr(f) ==
    IF f.mantissa = "nan" THEN "nan"
    ELSE IF f.mantissa = "inf" THEN (IF f.neg THEN "-inf" ELSE "inf")
    ELSE IF f.mantissa = "" THEN (IF f.neg THEN "-0.0" ELSE "0.0")
    ELSE (IF f.neg THEN "-" ELSE "")
             \o repr_of_shortest(
                    shortest_of(f, float_numerator(f), float_denominator(f),
                                decimal_point(float_numerator(f), float_denominator(f),
                                              Len(f.mantissa) + f.exp)))

\* the places of the keys of a dict built from the pairs of keys: a repeated key
\* keeps its first place
first_places(keys) ==
    SelectSeq([i \in 1..Len(keys) |-> i],
              LAMBDA i : \A j \in 1..(i - 1) : keys[j] # keys[i])

RECURSIVE py_repr(_)
RECURSIVE joined_reprs(_)
RECURSIVE joined_items(_, _, _)

\* "key: value" of the dict for the key at place i
item_repr(data, i) ==
    text_cat(str_repr(data.keys[i]),
             text_cat(JStr(": "),
                      py_repr(data.vals[MaxOf({j \in 1..Len(data.keys) :
                                                  data.keys[j] = data.keys[i]})])))

\* ", ".join of the items of the dict at the given places
joined_items(data, places, sep) ==
    IF places = <<>> THEN JStr("")
    ELSE IF Len(places) = 1 THEN item_repr(data, places[1])
    ELSE text_cat(joined_items(data, SubSeq(places, 1, Len(places) \div 2), sep),
                  text_cat(sep, joined_items(data,
                                             SubSeq(places, Len(places) \div 2 + 1,
                                                    Len(places)), sep)))

\* ", ".join(repr(item) for item in items)
joined_reprs(items) ==
    IF items = <<>> THEN JStr("")
    ELSE IF Len(items) = 1 THEN py_repr(items[1])
    ELSE text_cat(joined_reprs(SubSeq(items, 1, Len(items) \div 2)),
                  text_cat(JStr(", "),
                           joined_reprs(SubSeq(items, Len(items) \div 2 + 1, Len(items)))))

\* repr(v) of a decoded value, as a str
py_repr(v) ==
    CASE v.t = "null" -> JStr("None")
      [] v.t = "bool" -> JStr(IF v.b THEN "True" ELSE "False")
      [] v.t = "int" -> JStr((IF v.neg THEN "-" ELSE "") \o v.digits)
      [] v.t = "float" -> JStr(float_repr(v))
      [] v.t = "str" -> str_repr(v)
      [] v.t = "arr" -> text_cat(JStr("["), text_cat(joined_reprs(v.items), JStr("]")))
      [] OTHER -> text_cat(JStr("{"),
                           text_cat(joined_items(v, first_places(v.keys), JStr(", ")),
                                    JStr("}")))

\* the blanks float() and int() skip around a number
NumberBlanks == {SubSeq(Latin1, n, n) : n \in {9, 10, 11, 12, 13, 32, 133, 160}}

RECURSIVE number_lstrip(_)
number_lstrip(s) == IF s # "" /\ Head(s) \in NumberBlanks THEN number_lstrip(Tail(s)) ELSE s

RECURSIVE number_rstrip(_)
number_rstrip(s) ==
    IF s # "" /\ SubSeq(s, Len(s), Len(s)) \in NumberBlanks
    THEN number_rstrip(SubSeq(s, 1, Len(s) - 1)) ELSE s

\* the text of a number without the blanks around it
number_strip(s) == number_rstrip(number_lstrip(s))

\* every "_" of the text stands between two digits
underscores_between_digits(s) ==
    \A i \in 1..Len(s) : Ch(s, i) = "_" => DigitAt(s, i - 1) /\ DigitAt(s, i + 1)

\* float() of the digits, point and exponent that start at a: the integer digits
\* end at b, the fraction at c
float_of_number(s, neg, a, b, c) ==
    IF (b = a /\ c <= b + 1) \/ exponent_end(s, c) # Len(s) + 1 THEN Raise("ValueError")
    ELSE float_of_parts(s, neg, a, b, c, exponent_end(s, c))

\* float() of the text s that starts at a after its sign: inf, infinity, nan or a number
float_of_unsigned(s, neg, a) ==
    IF lower(Drop(s, a - 1)) \in {"inf", "infinity"} THEN Ret(FloatInf(neg))
    ELSE IF lower(Drop(s, a - 1)) = "nan" THEN Ret(FloatNaN)
    ELSE float_of_number(s, neg, a, digits_end(s, a),
                         IF Ch(s, digits_end(s, a)) = "."
                         THEN digits_end(s, digits_end(s, a) + 1) ELSE digits_end(s, a))

\* float(s) of a text without blanks around it and without "_"
float_of_stripped(s) ==
    IF Ch(s, 1) \in {"+", "-"} THEN float_of_unsigned(s, Ch(s, 1) = "-", 2)
    ELSE float_of_unsigned(s, FALSE, 1)

\* float(s) of a string
float_of_str(s) ==
    IF ~underscores_between_digits(number_strip(s)) THEN Raise("ValueError")
    ELSE float_of_stripped(replace(number_strip(s), "_", ""))

\* the characters c above U+00FF with c.isspace()
WideBlanks == {5760, 8232, 8233, 8239, 8287, 12288} \cup (8192..8202)

\* the characters above U+00FF that are the decimal digit 0 of a script (Unicode
\* 14.0); the digits 1 to 9 of the script follow each
DecimalZeros ==
    {1632, 1776, 1984, 2406, 2534, 2662, 2790, 2918, 3046, 3174, 3302, 3430, 3558,
     3664, 3792, 3872, 4160, 4240, 6112, 6160, 6470, 6608, 6784, 6800, 6992, 7088,
     7232, 7248, 42528, 43216, 43264, 43472, 43504, 43600, 44016, 65296, 66720,
     68912, 69734, 69872, 69942, 70096, 70384, 70736, 70864, 71248, 71360, 71472,
     71904, 72016, 72784, 73040, 73120, 92768, 92864, 93008, 120782, 120792, 120802,
     120812, 120822, 123200, 123632, 125264, 130032}

\* the zeros whose script the digit chr(n) belongs to: one, or none when chr(n) is
\* no decimal digit
zeros_of(n) == {z \in DecimalZeros : n \in z..(z + 9)}

\* what float() reads for chr(n): a blank as a space, a decimal digit of any script
\* as its ASCII digit, and any other character that no text holds as a character
\* that no number holds
number_char(n) ==
    IF InAlphabet(n) THEN chr(n)
    ELSE IF n \in WideBlanks THEN " "
    ELSE IF zeros_of(n) # {} THEN chr(48 + n - (CHOOSE z \in zeros_of(n) : TRUE))
    ELSE "?"

\* what float() reads for the characters of the code points cs
RECURSIVE number_text(_)
number_text(cs) ==
    IF cs = <<>> THEN ""
    ELSE IF Len(cs) = 1 THEN number_char(cs[1])
    ELSE number_text(SubSeq(cs, 1, Len(cs) \div 2))
             \o number_text(SubSeq(cs, Len(cs) \div 2 + 1, Len(cs)))

\* the float read from the str v, or the ValueError that names v
float_or_refused(v, read) ==
    IF read.exc # ""
    THEN RaiseWith("ValueError",
                   text_cat(JStr("could not convert string to float: "), str_repr(v)))
    ELSE read

\* float(v) of a str
float_of_text(v) ==
    float_or_refused(v, float_of_str(IF IsWide(v) THEN number_text(v.codes) ELSE v.s))

\* the float nearest to the int, or the OverflowError of one beyond the largest
float_or_overflow(converted) ==
    IF converted.exc # ""
    THEN RaiseWith("OverflowError", JStr("int too large to convert to float"))
    ELSE converted

\* float(n) of an int: the nearest float, OverflowError beyond the largest
float_of_int(v) == float_or_overflow(float_of_decimal(v.neg, v.digits, 0, TRUE))

\* float(v)
py_float(v) ==
    CASE v.t = "float" -> Ret(v)
      [] v.t = "int" -> float_of_int(v)
      [] v.t = "bool" -> Ret(IF v.b THEN FloatOne ELSE FloatZero(FALSE))
      [] v.t = "str" -> float_of_text(v)
      [] OTHER -> RaiseWith("TypeError",
                            JStr("float() argument must be a string or a real number, not '"
                                     \o type_name(v) \o "'"))

(***************************************************************************)
(* The domain model: api/models/schemas.py.                                *)
(***************************************************************************)
\* list(Severity), in definition order
Severity == <<"low", "medium", "high", "critical">>

\* list(IssueCategory), in definition order
IssueCategory ==
    <<"medical_accuracy", "citation_missing", "misleading_claim",
      "outdated_information", "unverified_statement", "contraindication",
      "dosage_concern", "presentation_style", "wording_concern",
      "visual_quality", "audio_quality", "accessibility", "professionalism",
      "other">>

Range(seq) == {seq[i] : i \in 1..Len(seq)}

\* Issue.description's min_length
DescriptionMinLength == 10

\* Field(..., ge=0.0, le=1.0) of a float: a value that is not both >= 0.0 and <= 1.0
\* is refused, nan with them
field_accepts(f) == float_ge_zero(f) /\ float_le_one(f)

\* the type of the error pydantic reports for the float f of such a field, "" when
\* the field accepts it: le is tested before ge
field_error(f) ==
    IF ~float_le_one(f) THEN "less_than_equal"
    ELSE IF ~float_ge_zero(f) THEN "greater_than_equal"
    ELSE ""

\* the error of the field name for the float f, none when the field accepts it
field_errors(name, f) ==
    IF field_accepts(f) THEN <<>>
    ELSE <<[loc |-> name, type |-> field_error(f), input |-> f]>>

\* a ValidationError: it carries its errors, and its text is that of
\* ValidationError_text
ValidationError(title, errors) ==
    [exc |-> "ValueError", v |-> JNull, title |-> title, errors |-> errors]

\* a Location that clamps its coordinates into [0, 1]
Location_clamped(x, y) ==
    Ret([x |-> IF ~float_ge_zero(x) THEN FloatZero(FALSE)
               ELSE IF ~float_le_one(x) THEN FloatOne ELSE x,
         y |-> IF ~float_ge_zero(y) THEN FloatZero(FALSE)
               ELSE IF ~float_le_one(y) THEN FloatOne ELSE y])

\* Location(x=.., y=..) of two floats: pydantic's ValidationError is a ValueError
Location(x, y) ==
    IF field_accepts(x) /\ field_accepts(y) THEN Ret([x |-> x, y |-> y])
    ELSE ValidationError("Location", field_errors("x", x) \o field_errors("y", y))

\* the message of an error of a field bounded by 0.0 and 1.0, or of a str field
error_message(type) ==
    IF type = "less_than_equal" THEN "Input should be less than or equal to 1"
    ELSE IF type = "string_type" THEN "Input should be a valid string"
    ELSE "Input should be greater than or equal to 0"

\* the input of an error as the text shows it: a float a bounded field refused,
\* or the None a str field refused
error_input(error) ==
    IF error.type = "string_type" THEN "input_value=None, input_type=NoneType"
    ELSE "input_value=" \o float_repr(error.input) \o ", input_type=float"

\* the lines of one error in the text of a ValidationError; pydantic is the
\* version of pydantic installed, which the link cites
error_text(error, pydantic) ==
    "\n" \o error.loc \o "\n  " \o error_message(error.type)
        \o " [type=" \o error.type \o ", " \o error_input(error)
        \o "]\n    For further information visit "
        \o "https://errors.pydantic.dev/" \o pydantic \o "/v/" \o error.type

\* str(e) of a ValidationError
ValidationError_text(e, pydantic) ==
    str_of_nat(Len(e.errors)) \o " validation error"
        \o (IF Len(e.errors) # 1 THEN "s" ELSE "") \o " for " \o e.title
        \o join("", [i \in 1..Len(e.errors) |-> error_text(e.errors[i], pydantic)])

\* str(e) of the exception a result holds, as a str
str_of_exception(e, pydantic) ==
    IF "errors" \in DOMAIN e THEN JStr(ValidationError_text(e, pydantic)) ELSE e.text

\* Issue(...) of values of the fields' types
Issue(start_timestamp, end_timestamp, severity, category, description, context, location) ==
    IF /\ severity \in Range(Severity)
       /\ category \in Range(IssueCategory)
       /\ Len(description) >= DescriptionMinLength
    THEN Ret([start_timestamp |-> start_timestamp, end_timestamp |-> end_timestamp,
              severity |-> severity, category |-> category,
              description |-> description, context |-> context,
              location |-> location])
    ELSE Raise("ValueError")

(***************************************************************************)
(* The legacy block parser: api/services/video_analyzer.py.                *)
(***************************************************************************)
\* current_issue = {} with each key absent; exc is the exception that left the
\* loop and text what str(e) gives for it
EmptyIssueDict ==
    [start_timestamp |-> None, end_timestamp |-> None, severity |-> None,
     category |-> None, description |-> None, context |-> None,
     location |-> None, exc |-> "", text |-> JStr("")]

\* the exceptions the Location branch catches
LocationCaught == {"JSONDecodeError", "ValueError", "KeyError"}

\* float(location_data[key]) of the item read, or the exception reading it raised
float_of_item(item) == IF item.exc # "" THEN item ELSE py_float(item.v)

\* Location(x=.., y=..) of the two floats, or the first exception raised
location_of_floats(x, y) ==
    IF x.exc # "" THEN x ELSE IF y.exc # "" THEN y ELSE Location(x.v, y.v)

\* Location(x=float(location_data["x"]), y=float(location_data["y"])) of the two items read
location_of_items(item_x, item_y) ==
    location_of_floats(float_of_item(item_x), float_of_item(item_y))

\* the Location of the parsed value: None when it holds no "x" or no "y"
location_of_data(location_data) ==
    IF py_in("x", location_data).exc # "" THEN py_in("x", location_data)
    ELSE IF ~py_in("x", location_data).v THEN Ret(None)
    ELSE IF ~py_in("y", location_data).v THEN Ret(None)
    ELSE LET loc == location_of_items(py_getitem(location_data, "x"),
                                      py_getitem(location_data, "y"))
         IN  IF loc.exc # "" THEN loc ELSE Ret(Some(loc.v))

\* what json.loads left: the exception, else the Location of the value
location_of_loaded(loaded) ==
    IF ~loaded.ok THEN RaiseWith(loaded.exc, JStr(loaded.text))
    ELSE location_of_data(loaded.v)

\* the try body of the Location branch: an optional Location, or the exception
\* raised; frames is the number of calls in progress in _parse_issues
location_of_line(line, frames) ==
    location_of_loaded(json_loads(strip(after_first(line, ":")), frames))

\* current_issue[key] = value, when the branch found a value
set_found(current_issue, key, found) ==
    IF found = None THEN current_issue ELSE [current_issue EXCEPT ![key] = found]

\* the Location branch: the location set, the exception caught, or the one that escapes
set_location(current_issue, got) ==
    IF got.exc = "" THEN set_found(current_issue, "location", got.v)
    ELSE IF got.exc \in LocationCaught THEN current_issue
    ELSE [current_issue EXCEPT !.exc = got.exc, !.text = got.text]

\* the Severity branch with a last else branch that sets low
severity_of_text_or_low(severity_text) ==
    IF contains(severity_text, "critical") THEN Some("critical")
    ELSE IF contains(severity_text, "high") THEN Some("high")
    ELSE IF contains(severity_text, "medium") THEN Some("medium")
    ELSE Some("low")

\* the Severity branch: the first level, in the order of the tests, that the text holds
severity_of_text(severity_text) ==
    IF contains(severity_text, "critical") THEN Some("critical")
    ELSE IF contains(severity_text, "high") THEN Some("high")
    ELSE IF contains(severity_text, "medium") THEN Some("medium")
    ELSE IF contains(severity_text, "low") THEN Some("low")
    ELSE None

\* the category at place i of list(IssueCategory), None when i = 0
category_at(i) == IF i = 0 THEN None ELSE Some(IssueCategory[i])

\* the Category branch: the first category, in definition order, whose value the text holds
category_of_text(category_text) ==
    category_at(MinOrZero({i \in 1..Len(IssueCategory) :
                              contains(category_text, IssueCategory[i])}))

\* the timestamp the search found, else N/A when the line holds n/a
timestamp_or_na(line, timestamp_match) ==
    IF timestamp_match # None THEN timestamp_match
    ELSE IF contains(lower(line), "n/a") THEN Some("N/A")
    ELSE None

\* "Start:" and "End:": the first timestamp of the line, else N/A when the line holds n/a
timestamp_of_line(line) == timestamp_or_na(line, timestamp_search(line))

\* line.split(":", 1)[1].strip()
field_value(line) == strip(after_first(line, ":"))

\* the branch a stripped, non-empty line takes; low is the line in lower case
parse_field(current_issue, line, low, frames) ==
    IF startswith(low, "start:")
    THEN set_found(current_issue, "start_timestamp", timestamp_of_line(line))
    ELSE IF startswith(low, "end:")
    THEN set_found(current_issue, "end_timestamp", timestamp_of_line(line))
    ELSE IF startswith(low, "severity:")
    THEN set_found(current_issue, "severity", severity_of_text(lower(field_value(line))))
    ELSE IF startswith(low, "category:")
    THEN set_found(current_issue, "category",
                   category_of_text(replace(lower(field_value(line)), " ", "_")))
    ELSE IF startswith(low, "description:")
    THEN [current_issue EXCEPT !.description = Some(field_value(line))]
    ELSE IF startswith(low, "context:")
    THEN [current_issue EXCEPT !.context = Some(field_value(line))]
    ELSE IF startswith(low, "location:")
    THEN set_location(current_issue, location_of_line(line, frames))
    ELSE current_issue

\* one pass of the loop over the lines of a block
parse_line(current_issue, raw_line, frames) ==
    IF current_issue.exc # "" \/ strip(raw_line) = "" THEN current_issue
    ELSE parse_field(current_issue, strip(raw_line), lower(strip(raw_line)), frames)

RECURSIVE parse_lines(_, _, _)
parse_lines(current_issue, lines, frames) ==
    IF lines = <<>> THEN current_issue
    ELSE parse_lines(parse_line(current_issue, Head(lines), frames), Tail(lines), frames)

\* dict.get(key, default) of an optional field
GetOr(field, default) == IF field = None THEN default ELSE field[1]

\* the Issue made, as an optional Issue: None when its validation failed
issue_or_none(made) == IF made.exc # "" THEN None ELSE Some(made.v)

\* the Issue of the dict with the description and a missing end passed as they are
issue_from_fields_unpadded(issue_dict, start_timestamp, description) ==
    issue_or_none(
        Issue(start_timestamp,
              GetOr(issue_dict.end_timestamp, ""),
              GetOr(issue_dict.severity, "medium"),
              GetOr(issue_dict.category, "other"),
              description,
              issue_dict.context, issue_dict.location))

\* the Issue of the dict, given the start_timestamp and the description read from it
issue_from_fields(issue_dict, start_timestamp, description) ==
    issue_or_none(
        Issue(start_timestamp,
              IF issue_dict.end_timestamp = None \/ issue_dict.end_timestamp = Some("")
              THEN start_timestamp ELSE issue_dict.end_timestamp[1],
              GetOr(issue_dict.severity, "medium"),
              GetOr(issue_dict.category, "other"),
              IF Len(description) < 10
              THEN "Potential issue identified at " \o start_timestamp
              ELSE description,
              issue_dict.context, issue_dict.location))

\* VideoAnalyzer._create_issue_from_dict: an optional Issue
_create_issue_from_dict(issue_dict) ==
    issue_from_fields(issue_dict, GetOr(issue_dict.start_timestamp, "00:00"),
                      GetOr(issue_dict.description, "Issue identified - details in context"))

\* what the block adds once its lines are read: [exc, v], v the Issues it adds
block_issues(current_issue) ==
    IF current_issue.exc # "" THEN RaiseWith(current_issue.exc, current_issue.text)
    ELSE IF current_issue.start_timestamp = None THEN Ret(<<>>)
    ELSE Ret(_create_issue_from_dict(current_issue))

\* the body of the loop with Example: looked for at the start of the block only
parse_block_leading_example(block, frames) ==
    IF strip(block) = "" \/ startswith(strip(block), "Example:") THEN Ret(<<>>)
    ELSE block_issues(parse_lines(EmptyIssueDict, split(strip(block), "\n"), frames))

\* the body of the loop over the blocks, for one block
parse_block(block, frames) ==
    IF strip(block) = "" \/ contains(block, "Example:") THEN Ret(<<>>)
    ELSE block_issues(parse_lines(EmptyIssueDict, split(strip(block), "\n"), frames))

RECURSIVE parse_blocks(_, _, _)
RECURSIVE blocks_after(_, _, _, _)

\* the loop over the blocks
parse_blocks(issues, issue_blocks, frames) ==
    IF issue_blocks = <<>> THEN Ret(issues)
    ELSE blocks_after(issues, parse_block(Head(issue_blocks), frames), Tail(issue_blocks),
                      frames)

\* the loop after a block, with the block's Issues put before those found so far
blocks_after_prepending(issues, got, issue_blocks, frames) ==
    IF got.exc # "" THEN got ELSE parse_blocks(got.v \o issues, issue_blocks, frames)

\* the loop after a block: an exception ends it
blocks_after(issues, got, issue_blocks, frames) ==
    IF got.exc # "" THEN got ELSE parse_blocks(issues \o got.v, issue_blocks, frames)

\* _parse_issues with the sentinel looked for at the start of the text only
_parse_issues_leading_sentinel(raw_analysis, frames) ==
    IF startswith(strip(raw_analysis), "NO ISSUES FOUND") THEN Ret(<<>>)
    ELSE parse_blocks(<<>>, split(raw_analysis, "ISSUE:"), frames)

\* VideoAnalyzer._parse_issues, run where frames calls are in progress, its own
\* included: [exc, v], v the list of Issues returned
_parse_issues(raw_analysis, frames) ==
    IF contains(raw_analysis, "NO ISSUES FOUND") THEN Ret(<<>>)
    ELSE parse_blocks(<<>>, split(raw_analysis, "ISSUE:"), frames)

(***************************************************************************)
(* The summary generator: VideoAnalyzer._generate_summary and              *)
(* AnalyzerService._generate_summary differ in the no-issues sentence only.*)
(***************************************************************************)
\* list(Severity).index(sev) + 1
SeverityIndex(sev) == CHOOSE i \in 1..Len(Severity) : Severity[i] = sev

\* the dict after severity_counts[sev] = severity_counts.get(sev, 0) + 1, the key being
\* at place i of the items, or absent when i = 0
count_at(items, sev, i) ==
    IF i = 0 THEN Append(items, <<sev, 1>>)
    ELSE [items EXCEPT ![i] = <<sev, items[i][2] + 1>>]

\* severity_counts.items(): <<severity, count>> pairs in order of first appearance
RECURSIVE severity_counts(_, _)
severity_counts(issues, items) ==
    IF issues = <<>> THEN items
    ELSE severity_counts(
             Tail(issues),
             count_at(items, Head(issues).severity,
                      MinOrZero({i \in 1..Len(items) : items[i][1] = Head(issues).severity})))

\* the items without the one at place top
remove_at(items, top) ==
    [k \in 1..(Len(items) - 1) |-> IF k < top THEN items[k] ELSE items[k + 1]]

\* the first of the items of the greatest severity
top_item(items) ==
    CHOOSE i \in 1..Len(items) :
        \A j \in 1..Len(items) :
            \/ SeverityIndex(items[j][1]) < SeverityIndex(items[i][1])
            \/ (SeverityIndex(items[j][1]) = SeverityIndex(items[i][1]) /\ i <= j)

\* the items left in the order of first appearance
items_unsorted(items) == items

RECURSIVE sorted_by_severity_desc(_)
RECURSIVE sorted_from(_, _)

\* sorted(items, key=lambda x: list(Severity).index(x[0]), reverse=True)
sorted_by_severity_desc(items) ==
    IF items = <<>> THEN <<>> ELSE sorted_from(items, top_item(items))

sorted_from(items, top) == <<items[top]>> \o sorted_by_severity_desc(remove_at(items, top))

\* the "{count} {severity.value}" parts joined by ", "
counts_text(items) ==
    join(", ", [i \in 1..Len(items) |-> str_of_nat(items[i][2]) \o " " \o items[i][1]])

severity_summary(issues) == counts_text(sorted_by_severity_desc(severity_counts(issues, <<>>)))

\* the summary of a non-empty list of Issues with the plural in every case
issues_summary_plural(issues) ==
    "Analysis identified " \o str_of_nat(Len(issues)) \o " potential issues"
        \o " (" \o severity_summary(issues) \o ")"
        \o " requiring review."

\* the summary of a non-empty list of Issues
issues_summary(issues) ==
    "Analysis identified " \o str_of_nat(Len(issues)) \o " potential issue"
        \o (IF Len(issues) # 1 THEN "s" ELSE "")
        \o " (" \o severity_summary(issues) \o ")"
        \o " requiring review."

\* VideoAnalyzer._generate_summary
VideoAnalyzer_generate_summary(issues) ==
    IF issues = <<>>
    THEN "No significant medical accuracy issues identified in this video."
    ELSE issues_summary(issues)

\* AnalyzerService._generate_summary
AnalyzerService_generate_summary(issues) ==
    IF issues = <<>>
    THEN "No significant medical accuracy issues identified in this content."
    ELSE issues_summary(issues)

(***************************************************************************)
(* Content identifiers.                                                    *)
(***************************************************************************)
\* GeminiClient.extract_video_id
extract_video_id(video_url) ==
    IF contains(video_url, "youtube.com/watch?v=")
    THEN split(split(video_url, "watch?v=")[2], "&")[1]
    ELSE IF contains(video_url, "youtu.be/")
    THEN split(split(video_url, "youtu.be/")[2], "?")[1]
    ELSE video_url

Last(seq) == seq[Len(seq)]

\* the content id of an image URL
image_content_id(image_url) ==
    IF contains(image_url, "/")
    THEN split(Last(split(image_url, "/")), "?")[1]
    ELSE image_url

VideoExtensions == {"mp4", "mpeg", "mov", "avi", "wmv", "mpg"}

\* the MIME type AnalyzerService.analyze passes with a video
video_mime_type(video_url) ==
    LET ext == lower(Last(split(video_url, ".")))
    IN  IF startswith(video_url, "gs://") /\ ext \in VideoExtensions
        THEN (IF ext # "mov" THEN "video/" \o ext ELSE "video/quicktime")
        ELSE "video/mp4"

(***************************************************************************)
(* Structured mode: the payload is {issues: [...], summary: string?}, each *)
(* element of issues mapped field by field onto Issue.                     *)
(***************************************************************************)
\* the value of a key of a JSON object as an optional value (None when absent)
json_get(obj, k) == IF py_in(k, obj).v THEN Some(py_getitem(obj, k).v) ELSE None

IsJStr(field) == field # None /\ field[1].t = "str"

IsAbsentOrNull(field) == field = None \/ field[1].t = "null"

\* a validation that failed is a ValidationError
validated(made) == IF made.exc # "" THEN Raise("ValidationError") ELSE made

\* an optional Location field of an element: [exc, v], v an optional Location
location_of_json(field) ==
    IF IsAbsentOrNull(field) THEN Ret(None)
    ELSE IF field[1].t # "obj" THEN Raise("ValidationError")
    ELSE IF json_get(field[1], "x") = None \/ json_get(field[1], "y") = None
    THEN Raise("ValidationError")
    ELSE validated(location_of_data(field[1]))

\* the text of a str: its code points when no text holds it
text_of(v) == IF IsWide(v) THEN v.codes ELSE v.s

\* the string at a key of an element
str_field(e, k) == text_of(json_get(e, k)[1])

\* whether the member at k is a str that no text holds, which names no member of an enum
IsWideField(e, k) == IsWide(json_get(e, k)[1])

\* the Issue of an element whose strings are in place, given its location
issue_with_location(e, location) ==
    IF location.exc # "" THEN Raise("ValidationError")
    ELSE validated(Issue(str_field(e, "start_timestamp"), str_field(e, "end_timestamp"),
                         str_field(e, "severity"), str_field(e, "category"),
                         str_field(e, "description"),
                         IF IsJStr(json_get(e, "context"))
                         THEN Some(str_field(e, "context")) ELSE None,
                         location.v))

\* one element of issues validated as an Issue
issue_of_json(e) ==
    IF e.t # "obj" THEN Raise("ValidationError")
    ELSE IF ~(/\ IsJStr(json_get(e, "start_timestamp")) /\ IsJStr(json_get(e, "end_timestamp"))
              /\ IsJStr(json_get(e, "severity")) /\ IsJStr(json_get(e, "category"))
              /\ IsJStr(json_get(e, "description")))
    THEN Raise("ValidationError")
    ELSE IF ~(IsAbsentOrNull(json_get(e, "context")) \/ IsJStr(json_get(e, "context")))
    THEN Raise("ValidationError")
    ELSE IF IsWideField(e, "severity") \/ IsWideField(e, "category")
    THEN Raise("ValidationError")
    ELSE issue_with_location(e, location_of_json(json_get(e, "location")))

RECURSIVE issues_of_json(_, _)
RECURSIVE issues_after(_, _, _)

\* the elements of issues in order; the first invalid one fails the whole document
issues_of_json(items, issues) ==
    IF items = <<>> THEN Ret(issues)
    ELSE issues_after(Tail(items), issues, issue_of_json(Head(items)))

issues_after(items, issues, got) ==
    IF got.exc # "" THEN Raise("ValidationError")
    ELSE issues_of_json(items, Append(issues, got.v))

\* the document of the issues validated and of the summary member
validated_document(issues, summary) ==
    IF issues.exc # "" THEN Raise("ValidationError")
    ELSE IF ~(IsAbsentOrNull(summary) \/ IsJStr(summary)) THEN Raise("ValidationError")
    ELSE Ret([issues |-> issues.v,
              summary |-> IF IsJStr(summary) THEN Some(text_of(summary[1])) ELSE None])

\* the validation of what json decoding left
validate_loaded(loaded) ==
    IF ~loaded.ok \/ loaded.v.t # "obj" THEN Raise("ValidationError")
    ELSE IF json_get(loaded.v, "issues") = None THEN Raise("ValidationError")
    ELSE IF json_get(loaded.v, "issues")[1].t # "arr" THEN Raise("ValidationError")
    ELSE validated_document(issues_of_json(json_get(loaded.v, "issues")[1].items, <<>>),
                            json_get(loaded.v, "summary"))

\* AnalysisResponseSchema.model_validate_json: [exc, v], v = [issues, summary];
\* pydantic decodes the document outside the frames of Python code
model_validate_json(raw_analysis) == validate_loaded(json_loads(raw_analysis, 0))

(***************************************************************************)
(* Calls, replies and results.  A reply of the remote model is             *)
(* [raises, text]: the text it returns, or the text of the error it        *)
(* raises.  A result is what a call returned or the exception it raised;   *)
(* status_code is that of an HTTPException, 0 for any other exception.     *)
(* message is what str(e) gives, a text, or the code points of one that no *)
(* text holds.  AnalysisResponseSchema is not part of the sources, so the  *)
(* ValidationError of its model_validate_json is a result without message: *)
(* what it prints is not determined by them.                               *)
(***************************************************************************)
Returned(v) == [kind |-> "returned", v |-> v]
Raised(exc, message) == [kind |-> "raised", exc |-> exc, status_code |-> 0, message |-> message]
RaisedUnprinted(exc) == [kind |-> "raised", exc |-> exc, status_code |-> 0]
HTTPException(status_code, detail) ==
    [kind |-> "raised", exc |-> "HTTPException", status_code |-> status_code, message |-> detail]
Pending == [kind |-> "pending"]
\* the handler is suspended at an await that is no call of the remote model
Awaiting(what) == [kind |-> "awaiting", what |-> what]
NoResponse == [kind |-> "none"]
NoRequest == [op |-> "none"]

\* bool(x) of an optional string or bytes: None and the empty value are false
Truthy(x) == x # None /\ x[1] # ""

\* str(x) if x else the literal None of an f-string
StrOrNone(x) == IF x = None THEN "None" ELSE x[1]

\* the frame_rate default of analyze
DefaultFrameRate == FloatOne

\* the remote calls of a request once the reply is in, with a second try after a failure
remote_calls_after_retry(calls, reply) == IF reply.raises THEN calls \o calls ELSE calls

\* the remote calls of a request once the reply is in: GeminiClient logs an
\* exception and raises it again, and no caller repeats the call
remote_calls_after(calls, reply) == calls

\* Settings.gemini_model_fast and Settings.gemini_model_powerful
gemini_model_fast == "gemini-3-flash-preview"
gemini_model_powerful == "gemini-3-pro-preview"

(***************************************************************************)
(* AnalyzerService.analyze and VideoAnalyzer.analyze.                      *)
(***************************************************************************)
\* inputs = sum([bool(video_url), bool(image_url), bool(image_data)])
input_count(video_url, image_url, image_data) ==
    (IF Truthy(video_url) THEN 1 ELSE 0) + (IF Truthy(image_url) THEN 1 ELSE 0)
        + (IF Truthy(image_data) THEN 1 ELSE 0)

\* validate_input without the test for more than one input
validate_input_some(video_url, image_url, image_data) ==
    IF input_count(video_url, image_url, image_data) = 0
    THEN Raised("ValueError", "Either video_url, image_url, or image_data must be provided")
    ELSE Pending

\* the validation that opens analyze: the ValueError raised, else the call goes on
validate_input(video_url, image_url, image_data) ==
    LET inputs == input_count(video_url, image_url, image_data)
    IN  IF inputs = 0
        THEN Raised("ValueError", "Either video_url, image_url, or image_data must be provided")
        ELSE IF inputs > 1
        THEN Raised("ValueError",
                    "Cannot analyze multiple inputs in the same request. Please provide only one.")
        ELSE Pending

\* the remote call AnalyzerService.analyze awaits
AnalyzerService_remote_call(video_url, image_url, image_data, model_name) ==
    IF Truthy(video_url)
    THEN [method |-> "analyze_video", content |-> video_url[1],
          frame_rate |-> DefaultFrameRate, mime_type |-> video_mime_type(video_url[1]),
          model_name |-> model_name, response_schema |-> "AnalysisResponseSchema"]
    ELSE IF Truthy(image_url)
    THEN [method |-> "analyze_image", content |-> image_url[1], model_name |-> model_name,
          response_schema |-> "AnalysisResponseSchema"]
    ELSE [method |-> "analyze_image", content |-> image_data[1], model_name |-> model_name,
          response_schema |-> "AnalysisResponseSchema"]

\* the remote call VideoAnalyzer.analyze makes
VideoAnalyzer_remote_call(video_url, image_url, image_data) ==
    IF Truthy(video_url)
    THEN [method |-> "analyze_video", content |-> video_url[1], frame_rate |-> DefaultFrameRate]
    ELSE IF Truthy(image_url)
    THEN [method |-> "analyze_image", content |-> image_url[1]]
    ELSE [method |-> "analyze_image", content |-> image_data[1]]

\* content_id of the branch taken
content_id_of(video_url, image_url) ==
    IF Truthy(video_url) THEN extract_video_id(video_url[1])
    ELSE IF Truthy(image_url) THEN image_content_id(image_url[1])
    ELSE "uploaded_image"

\* content_url of the branch taken
content_url_of(video_url, image_url) ==
    IF Truthy(video_url) THEN video_url[1]
    ELSE IF Truthy(image_url) THEN image_url[1]
    ELSE "uploaded_image"

\* AnalyzeResponse with a total that tells only whether there are issues
AnalyzeResponse_flag_total(video_id, video_url, issues, summary, total_issues) ==
    [video_id |-> video_id, video_url |-> video_url, issues |-> issues,
     summary |-> summary, total_issues |-> IF issues = <<>> THEN 0 ELSE 1]

\* AnalyzeResponse(...); analysis_timestamp, the clock's reading, is left out
AnalyzeResponse(video_id, video_url, issues, summary, total_issues) ==
    [video_id |-> video_id, video_url |-> video_url, issues |-> issues,
     summary |-> summary, total_issues |-> total_issues]

\* the return of AnalyzerService.analyze with a summary that is always generated
AnalyzerService_response_generated(video_url, image_url, structured_data) ==
    IF structured_data.exc # "" THEN RaisedUnprinted(structured_data.exc)
    ELSE Returned(AnalyzeResponse(content_id_of(video_url, image_url),
                                  content_url_of(video_url, image_url),
                                  structured_data.v.issues,
                                  AnalyzerService_generate_summary(structured_data.v.issues),
                                  Len(structured_data.v.issues)))

\* the return of AnalyzerService.analyze with a payload that failed validation
\* taken as a payload without issues
AnalyzerService_response_lenient(video_url, image_url, structured_data) ==
    IF structured_data.exc # ""
    THEN Returned(AnalyzeResponse(content_id_of(video_url, image_url),
                                  content_url_of(video_url, image_url),
                                  <<>>, AnalyzerService_generate_summary(<<>>), 0))
    ELSE Returned(AnalyzeResponse(content_id_of(video_url, image_url),
                                  content_url_of(video_url, image_url),
                                  structured_data.v.issues,
                                  IF Truthy(structured_data.v.summary)
                                  THEN structured_data.v.summary[1]
                                  ELSE AnalyzerService_generate_summary(structured_data.v.issues),
                                  Len(structured_data.v.issues)))

\* the return of AnalyzerService.analyze, given the payload validated
AnalyzerService_response(video_url, image_url, structured_data) ==
    IF structured_data.exc # "" THEN RaisedUnprinted(structured_data.exc)
    ELSE Returned(AnalyzeResponse(content_id_of(video_url, image_url),
                                  content_url_of(video_url, image_url),
                                  structured_data.v.issues,
                                  IF Truthy(structured_data.v.summary)
                                  THEN structured_data.v.summary[1]
                                  ELSE AnalyzerService_generate_summary(structured_data.v.issues),
                                  Len(structured_data.v.issues)))

\* AnalyzerService.analyze from the reply of the remote model to its return
AnalyzerService_analyze_result(video_url, image_url, reply) ==
    IF reply.raises THEN Raised("Exception", reply.text)
    ELSE AnalyzerService_response(video_url, image_url, model_validate_json(reply.text))

\* the return of VideoAnalyzer.analyze, given what the parser returned or raised
VideoAnalyzer_response(video_url, image_url, parsed) ==
    IF parsed.exc # "" THEN Raised(parsed.exc, text_of(parsed.text))
    ELSE Returned(AnalyzeResponse(content_id_of(video_url, image_url),
                                  content_url_of(video_url, image_url),
                                  parsed.v, VideoAnalyzer_generate_summary(parsed.v),
                                  Len(parsed.v)))

\* VideoAnalyzer.analyze from the reply of the remote model to its return; frames
\* is the number of calls in progress in analyze, which calls _parse_issues
VideoAnalyzer_analyze_result(video_url, image_url, reply, frames) ==
    IF reply.raises THEN Raised("Exception", reply.text)
    ELSE VideoAnalyzer_response(video_url, image_url, _parse_issues(reply.text, frames + 1))

(***************************************************************************)
(* The two-step locate protocol: api/routes/analysis.py.                   *)
(***************************************************************************)
EmptyTable == [k \in {} |-> ""]

\* a store that keeps only the entry written last
Store_latest_only(table, image_id, file_content) ==
    [k \in {image_id} |-> file_content]

\* uploaded_images[image_id] = file_content
Store(table, image_id, file_content) ==
    [k \in DOMAIN table \cup {image_id} |-> IF k = image_id THEN file_content ELSE table[k]]

\* uploaded_images.get(image_id)
TableGet(table, image_id) == IF image_id \in DOMAIN table THEN Some(table[image_id]) ELSE None

\* the model a speed selects
speed_model_name(speed) ==
    IF speed = "powerful" THEN "gemini-3-pro-preview" ELSE "gemini-flash-latest"

\* GeminiClient's default model
DefaultModelName == "gemini-flash-latest"

\* analyze_initial up to its remote call: the error it ends with, else the call goes on
analyze_initial_start(content_type, file_content) ==
    IF ~(Truthy(content_type) /\ startswith(content_type[1], "image/"))
    THEN HTTPException(400, "Invalid file type: " \o StrOrNone(content_type)
                            \o ". Only image files are supported.")
    ELSE IF file_content = ""
    THEN HTTPException(500, "Failed to analyze file: "
                            \o "Either image_url or image_data must be provided")
    ELSE Pending

\* whether analyze_initial reaches uploaded_images[image_id] = file_content
analyze_initial_stores(content_type) ==
    Truthy(content_type) /\ startswith(content_type[1], "image/")

\* the issues of Phase 1 with ids numbered from 1
IssuesWithoutLocation_from_one(image_id, issues_with_loc) ==
    [idx \in 1..Len(issues_with_loc) |->
        [issue_id |-> image_id \o "_" \o str_of_nat(idx),
         start_timestamp |-> issues_with_loc[idx].start_timestamp,
         end_timestamp |-> issues_with_loc[idx].end_timestamp,
         severity |-> issues_with_loc[idx].severity,
         category |-> issues_with_loc[idx].category,
         description |-> issues_with_loc[idx].description,
         context |-> issues_with_loc[idx].context]]

\* the issues of Phase 1: each Issue without its location, with the id image_id_idx
IssuesWithoutLocation(image_id, issues_with_loc) ==
    [idx \in 1..Len(issues_with_loc) |->
        [issue_id |-> image_id \o "_" \o str_of_nat(idx - 1),
         start_timestamp |-> issues_with_loc[idx].start_timestamp,
         end_timestamp |-> issues_with_loc[idx].end_timestamp,
         severity |-> issues_with_loc[idx].severity,
         category |-> issues_with_loc[idx].category,
         description |-> issues_with_loc[idx].description,
         context |-> issues_with_loc[idx].context]]

\* the return of analyze_initial, given what the parser returned or raised
analyze_initial_response(image_id, parsed) ==
    IF parsed.exc # ""
    THEN HTTPException(500, text_of(text_cat(JStr("Failed to analyze file: "), parsed.text)))
    ELSE Returned(AnalyzeResponse(image_id, "uploaded_image_" \o image_id,
                                  IssuesWithoutLocation(image_id, parsed.v),
                                  VideoAnalyzer_generate_summary(parsed.v),
                                  Len(parsed.v)))

\* analyze_initial from the reply of the remote model to its return; frames is the
\* number of calls in progress in analyze_initial, which calls _parse_issues
analyze_initial_result(image_id, reply, frames) ==
    IF reply.raises THEN HTTPException(500, "Failed to analyze file: " \o reply.text)
    ELSE analyze_initial_response(image_id, _parse_issues(reply.text, frames + 1))

\* "_".join(issue_id.split("_")[:-1])
image_id_of(issue_id) ==
    LET parts == split(issue_id, "_")
    IN  join("_", [i \in 1..(Len(parts) - 1) |-> parts[i]])

\* get_issue_location_start without the clause that lets an HTTPException pass
get_issue_location_start_caught(table, issue_id, image_url) ==
    IF ~Truthy(TableGet(table, image_id_of(issue_id))) /\ ~Truthy(image_url)
    THEN HTTPException(500, "Failed to find issue location: 404: Image not found. Image ID: "
                            \o image_id_of(issue_id))
    ELSE Pending

\* get_issue_location up to its remote call: the error it ends with, else the call goes on
get_issue_location_start(table, issue_id, image_url) ==
    LET image_id == image_id_of(issue_id)
        image_data == TableGet(table, image_id)
    IN  IF ~Truthy(image_data) /\ ~Truthy(image_url)
        THEN HTTPException(404, "Image not found. Image ID: " \o image_id)
        ELSE Pending

\* the remote call of get_issue_location
get_issue_location_remote_call(table, issue_id, image_url, issue_description) ==
    LET image_data == TableGet(table, image_id_of(issue_id))
    IN  [method |-> "find_issue_location",
         image_url |-> IF Truthy(image_data) THEN None ELSE image_url,
         image_data |-> IF Truthy(image_data) THEN image_data ELSE None,
         issue_description |-> issue_description, issue_context |-> "",
         model |-> DefaultModelName]

\* the text from the { at i to the first } after it, None when i = 0
brace_match(s, i) == IF i = 0 THEN None ELSE Some(SubSeq(s, i, i + find(Drop(s, i), "}")))

\* re.search(r'\{[^}]+\}', s): the leftmost { that a } follows after one character
\* or more, up to the first } after it
first_brace_object(s) ==
    brace_match(s, MinOrZero({i \in 1..Len(s) : Ch(s, i) = "{" /\ find(Drop(s, i), "}") >= 2}))

\* the except branch of get_issue_location, for an exception that prints as the
\* str text
location_failed(text) ==
    HTTPException(500, text_of(text_cat(JStr("Failed to find issue location: "), text)))

\* the return of get_issue_location, given the Location made or the exception raised
location_response(issue_id, location, pydantic) ==
    IF location.exc # "" THEN location_failed(str_of_exception(location, pydantic))
    ELSE Returned([issue_id |-> issue_id, location |-> location.v])

\* get_issue_location from json.loads of the text matched: the f-string prints
\* the dict loaded
location_of_match(issue_id, loaded, pydantic) ==
    IF ~loaded.ok THEN location_failed(JStr(loaded.text))
    ELSE IF ~py_in("x", loaded.v).v \/ ~py_in("y", loaded.v).v
    THEN location_failed(text_cat(JStr("Invalid location data: "), py_repr(loaded.v)))
    ELSE location_response(issue_id,
                           location_of_items(py_getitem(loaded.v, "x"),
                                             py_getitem(loaded.v, "y")),
                           pydantic)

\* get_issue_location from the search of a JSON object in the stripped reply
location_of_reply(issue_id, raw_location, json_match, frames, pydantic) ==
    IF json_match = None
    THEN location_failed(JStr("No JSON found in response: " \o raw_location))
    ELSE location_of_match(issue_id, json_loads(json_match[1], frames), pydantic)

\* get_issue_location from the reply of the remote model to its return; frames is
\* the number of calls in progress in get_issue_location, pydantic the version of
\* pydantic installed
get_issue_location_result(issue_id, reply, frames, pydantic) ==
    IF reply.raises THEN location_failed(JStr(reply.text))
    ELSE location_of_reply(issue_id, strip(reply.text), first_brace_object(strip(reply.text)),
                           frames, pydantic)

(***************************************************************************)
(* The endpoints analyze_video and analyze_upload of api/routes/analysis.py *)
(* and upload_file and delete_file of api/routes/storage.py.               *)
(***************************************************************************)
\* str(e): an HTTPException prints as "status_code: detail"
exception_text(e) ==
    IF e.exc = "HTTPException" THEN str_of_nat(e.status_code) \o ": " \o e.message
    ELSE e.message

\* the except clauses of analyze_video: ValueError gives 400, and every other
\* exception, an HTTPException raised in the try block included, gives 500
analyze_video_rendered(result) ==
    IF result.kind # "raised" THEN result
    ELSE IF result.exc = "ValueError" THEN HTTPException(400, result.message)
    ELSE HTTPException(500, "Failed to analyze content: " \o exception_text(result))

\* analyze_video up to the remote call: the error it ends with, else the call goes on
analyze_video_start(video_url, image_url) ==
    analyze_video_rendered(
        IF ~Truthy(video_url) /\ ~Truthy(image_url)
        THEN HTTPException(400, "Either video_url or image_url must be provided")
        ELSE validate_input(video_url, image_url, None))

\* the remote call of an analyzer built by VideoAnalyzer(model_name=...)
route_remote_call(video_url, image_url, image_data, speed) ==
    [call |-> VideoAnalyzer_remote_call(video_url, image_url, image_data),
     model |-> speed_model_name(speed)]

\* analyze_video from the reply of the remote model to its return; frames is the
\* number of calls in progress in analyze_video, which calls analyze
analyze_video_result(video_url, image_url, reply, frames) ==
    analyze_video_rendered(
        VideoAnalyzer_analyze_result(video_url, image_url, reply, frames + 1))

\* the except clauses of analyze_upload: an HTTPException passes, every other
\* exception gives 500
analyze_upload_rendered(result) ==
    IF result.kind # "raised" \/ result.exc = "HTTPException" THEN result
    ELSE HTTPException(500, "Failed to analyze uploaded file: " \o result.message)

\* analyze_upload up to the remote call: the error it ends with, else the call goes on
analyze_upload_start(content_type, file_content) ==
    analyze_upload_rendered(
        IF ~(Truthy(content_type) /\ startswith(content_type[1], "image/"))
        THEN HTTPException(400, "Invalid file type: " \o StrOrNone(content_type)
                                \o ". Only image files are supported.")
        ELSE validate_input(None, None, Some(file_content)))

\* analyze_upload from the reply of the remote model to its return; frames is the
\* number of calls in progress in analyze_upload, which calls analyze
analyze_upload_result(reply, frames) ==
    analyze_upload_rendered(VideoAnalyzer_analyze_result(None, None, reply, frames + 1))

\* Settings.gcs_bucket_name and Settings.gcs_media_folder as an f-string prints them
gcs_bucket_name == "None"
gcs_media_folder == "dev"

\* StorageItem(...) as upload_file builds it; content_type is blob.content_type,
\* a str or None, and a str field refuses None.  created, the clock's reading,
\* is left out
StorageItem(filename, content_type) ==
    IF content_type = None
    THEN ValidationError("StorageItem",
                         <<[loc |-> "content_type", type |-> "string_type", input |-> None]>>)
    ELSE Ret([name |-> filename,
              uri |-> "gs://" \o gcs_bucket_name \o "/" \o gcs_media_folder \o "/" \o filename,
              url |-> "/api/v1/storage/file/" \o gcs_media_folder \o "/" \o filename,
              content_type |-> content_type[1]])

\* a call upload_file makes to the storage collaborator
upload_file_calls(method, filename) ==
    [method |-> method, path |-> gcs_media_folder \o "/" \o filename]

\* the except clause of upload_file
upload_file_failed(text) == HTTPException(500, "Failed to upload file: " \o text)

\* upload_file from the outcome of blob.reload to its return; content_type is
\* what the blob reports after the reload, pydantic the version installed
upload_file_result(filename, content_type, reply, pydantic) ==
    IF reply.raises THEN upload_file_failed(reply.text)
    ELSE IF StorageItem(filename, content_type).exc # ""
    THEN upload_file_failed(
             ValidationError_text(StorageItem(filename, content_type), pydantic))
    ELSE Returned(StorageItem(filename, content_type).v)

\* the return of delete_file, given what blob.exists gave and how blob.delete ended
delete_file_response(file_path, blob_exists, blob_delete) ==
    IF blob_exists = "raises" \/ blob_delete = "raises"
    THEN HTTPException(500, "Failed to delete file")
    ELSE IF blob_exists = "false" THEN HTTPException(404, "File not found")
    ELSE Returned([status |-> "success", message |-> "File " \o file_path \o " deleted"])

(***************************************************************************)
(* The endpoint get_file of api/routes/storage.py: the Range header, the   *)
(* response it is answered with, and the loops that stream the body.  A    *)
(* file is its size; the body is the number of bytes streamed.             *)
(***************************************************************************)
\* the size of the reads of the streaming loops: 64 * 1024
ReadSize == 65536

\* s.replace(a, b) for a non-empty a
str_replace(s, a, b) == join(b, split(s, a))

\* str(n)
str_of_int(n) == IF n < 0 THEN "-" \o str_of_nat(0 - n) ELSE str_of_nat(n)

\* the groups of digits an int literal is made of, "_" between them
IsDigitGroups(parts) ==
    \A k \in 1..Len(parts) :
        parts[k] # "" /\ \A j \in 1..Len(parts[k]) : DigitAt(parts[k], j)

\* the int of the decimal digits d: int() refuses more than 4300 digits
int_of_digits(d, negative) ==
    IF Len(d) > 4300 THEN Raise("ValueError")
    ELSE IF lstrip_zeros(d) = "" THEN Ret(JInt(FALSE, "0"))
    ELSE Ret(JInt(negative, lstrip_zeros(d)))

\* int() of the text after the sign
int_of_unsigned(parts, negative) ==
    IF ~IsDigitGroups(parts) THEN Raise("ValueError")
    ELSE int_of_digits(join("", parts), negative)

\* int() of a text without blanks around it
int_of_stripped(s) ==
    IF s # "" /\ Ch(s, 1) \in {"+", "-"}
    THEN int_of_unsigned(split(Drop(s, 1), "_"), Ch(s, 1) = "-")
    ELSE int_of_unsigned(split(s, "_"), FALSE)

\* int(s): [exc, v]
py_int(s) == int_of_stripped(number_strip(s))

\* the int n
int_of(n) == JInt(n < 0, str_of_nat(IF n < 0 THEN 0 - n ELSE n))

\* a >= n for an int a and a size n >= 0
int_ge(a, n) == ~a.neg /\ big_cmp(big_of_digits(a.digits), big_of_digits(str_of_nat(n))) >= 0

\* the value of an int below a size
int_value(a) == IF a.neg THEN 0 - nat_of_str(a.digits) ELSE nat_of_str(a.digits)

\* the except branch of the parse: the whole file
full_range(file_size) == [start |-> int_of(0), end |-> int_of(file_size - 1)]

\* start and end of the two texts around the "-", given int() of each
range_of_ints(start, end_str, end, file_size) ==
    IF start.exc # "" THEN full_range(file_size)
    ELSE IF end_str = "" THEN [start |-> start.v, end |-> int_of(file_size - 1)]
    ELSE IF end.exc # "" THEN full_range(file_size)
    ELSE [start |-> start.v, end |-> end.v]

\* start_str, end_str = ...split("-"): anything but two parts is a ValueError
range_of_parts(parts, file_size) ==
    IF Len(parts) # 2 THEN full_range(file_size)
    ELSE range_of_ints(py_int(parts[1]), parts[2], py_int(parts[2]), file_size)

\* the try block that reads the Range header
parse_range(range_header, file_size) ==
    range_of_parts(split(str_replace(range_header, "bytes=", ""), "-"), file_size)

\* blob.content_type or "application/octet-stream"
media_type_of(content_type) ==
    IF Truthy(content_type) THEN content_type[1] ELSE "application/octet-stream"

\* min(a, b)
Min(a, b) == IF a < b THEN a ELSE b

\* the StreamingResponse of a range: start and chunk_size are what iterfile closes over
partial_content(start, end, file_size, content_type) ==
    Returned([status_code |-> 206,
              headers |-> ("Content-Range" :> ("bytes " \o str_of_int(start) \o "-"
                                                 \o str_of_int(end) \o "/"
                                                 \o str_of_int(file_size))
                           @@ "Accept-Ranges" :> "bytes"
                           @@ "Content-Length" :> str_of_int(end - start + 1)
                           @@ "Content-Type" :> media_type_of(content_type)),
              media_type |-> media_type_of(content_type),
              start |-> start, chunk_size |-> end - start + 1, body |-> 0])

\* min(end, file_size - 1)
end_within(end, file_size) ==
    IF int_ge(end, file_size) THEN file_size - 1 ELSE int_value(end)

\* get_file from the range parsed
range_response(range, file_size, content_type) ==
    IF int_ge(range.start, file_size) THEN HTTPException(416, "Range not satisfiable")
    ELSE partial_content(int_value(range.start), end_within(range.end, file_size),
                         file_size, content_type)

\* the StreamingResponse of a request without Range
full_content(file_size, content_type) ==
    Returned([status_code |-> 200,
              headers |-> ("Accept-Ranges" :> "bytes"
                           @@ "Content-Length" :> str_of_int(file_size)),
              media_type |-> media_type_of(content_type),
              start |-> 0, chunk_size |-> file_size, body |-> 0])

\* the last except clause of get_file
get_file_failed == HTTPException(500, "Failed to retrieve file")

\* get_file up to its return; blob_exists is what blob.exists gave or that it raised
get_file_response(blob_exists, range_header, file_size, content_type) ==
    IF blob_exists = "raises" THEN get_file_failed
    ELSE IF blob_exists = "false" THEN HTTPException(404, "File not found")
    ELSE IF Truthy(range_header)
    THEN range_response(parse_range(range_header[1], file_size), file_size, content_type)
    ELSE full_content(file_size, content_type)

\* the file blob.open gives: the place of the next read, the length of the data
\* last read, the await or yield its generator is suspended at, and what took the
\* generator out of its loop other than the loop's end: the consumer closing it
\* ("aclose") or an exception of an awaited call ("raised")
OpenFile(iter) ==
    [iter |-> iter, open |-> TRUE, pos |-> 0, data |-> 0, at |-> "opened", exit |-> ""]

\* the file after f.close, its generator ended
ClosedFile(f) == [f EXCEPT !.open = FALSE, !.at = "closed"]

\* blob.open raised: the generator ended before its try block, with no file
UnopenedFile(iter) == [OpenFile(iter) EXCEPT !.open = FALSE, !.at = "ended", !.exit = "raised"]

\* the generator left its loop for the finally clause and awaits f.close
ClosingFile(f, exit) == [f EXCEPT !.at = "closing", !.exit = exit]

\* f.close raised and the generator ended; open is whether the file was closed
\* all the same
UnclosedFile(f, open) == [f EXCEPT !.open = open, !.at = "ended", !.exit = "raised"]

\* len(f.read(read_size)) at the place pos of a file of file_size bytes
read_length(read_size, pos, file_size) ==
    IF pos >= file_size \/ read_size <= 0 THEN 0 ELSE Min(read_size, file_size - pos)

\* len(data) of the read iterfile makes next
iterfile_data(f, file_size) == read_length(Min(ReadSize, f.remaining), f.pos, file_size)

\* len(data) of the read full_iterfile makes next
full_iterfile_data(f, file_size) == read_length(ReadSize, f.pos, file_size)

(***************************************************************************)
(* Settings of api/config.py: the validator that runs after the fields are *)
(* read.  pydantic reports the ValueError it raises as a ValidationError   *)
(* that carries its message.                                               *)
(***************************************************************************)
\* validate_genai_config without the test of the location
validate_genai_config_no_location(google_genai_use_vertexai, google_cloud_project, google_cloud_location, gemini_api_key) ==
    IF google_genai_use_vertexai /\ ~Truthy(google_cloud_project)
    THEN Raised("ValidationError",
                "GOOGLE_CLOUD_PROJECT is required when GOOGLE_GENAI_USE_VERTEXAI is True")
    ELSE IF ~google_genai_use_vertexai /\ ~Truthy(gemini_api_key)
    THEN Raised("ValidationError",
                "GEMINI_API_KEY is required when GOOGLE_GENAI_USE_VERTEXAI is False")
    ELSE Returned([google_genai_use_vertexai |-> google_genai_use_vertexai,
                   google_cloud_project |-> google_cloud_project,
                   google_cloud_location |-> google_cloud_location,
                   gemini_api_key |-> gemini_api_key])

\* Settings(): validate_genai_config on the fields read from the environment
validate_genai_config(google_genai_use_vertexai, google_cloud_project, google_cloud_location, gemini_api_key) ==
    IF google_genai_use_vertexai /\ ~Truthy(google_cloud_project)
    THEN Raised("ValidationError",
                "GOOGLE_CLOUD_PROJECT is required when GOOGLE_GENAI_USE_VERTEXAI is True")
    ELSE IF google_genai_use_vertexai /\ google_cloud_location = ""
    THEN Raised("ValidationError",
                "GOOGLE_CLOUD_LOCATION is required when GOOGLE_GENAI_USE_VERTEXAI is True")
    ELSE IF ~google_genai_use_vertexai /\ ~Truthy(gemini_api_key)
    THEN Raised("ValidationError",
                "GEMINI_API_KEY is required when GOOGLE_GENAI_USE_VERTEXAI is False")
    ELSE Returned([google_genai_use_vertexai |-> google_genai_use_vertexai,
                   google_cloud_project |-> google_cloud_project,
                   google_cloud_location |-> google_cloud_location,
                   gemini_api_key |-> gemini_api_key])

(***************************************************************************)
(* Bounds and the values the calls are made with.                          *)
(***************************************************************************)
\* uploads the table holds at most
MaxUploads == 2
\* calls in progress in an operation a test runs, and in one a server runs
ShallowCaller == 20
ServerCaller == 60
\* ISSUE blocks of a legacy text
MaxBlocks == 2
\* Issues of a list handed to the summary generator
MaxIssues == 3

NoReply == [raises |-> FALSE, text |-> "", received |-> FALSE]
TextReply(text) == [raises |-> FALSE, text |-> text, received |-> TRUE]
ErrorReply(text) == [raises |-> TRUE, text |-> text, received |-> TRUE]

\* the calls in progress in an operation, its own included, that the recursion
\* limit counts: in one a test runs, and in one a server reaches through its
\* middleware
CallerFrames == {ShallowCaller, ServerCaller}

\* the pydantic releases whose documentation a ValidationError's text points to
PydanticVersions == {"2.12", "2.13"}

\* the identifiers uuid4 hands out
UploadIds == {"img-" \o str_of_nat(i) : i \in 1..MaxUploads}

VideoUrls ==
    {None, Some(""), Some("https://www.youtube.com/watch?v=dQw4w9WgXcQ"),
     Some("gs://bucket/video.mov")}
ImageUrls ==
    {None, Some("https://example.com/scans/image.jpg?size=2"),
     Some("https://example.com/image.jpg?next=/home")}
ImageDatas == {None, Some(""), Some("PNG1")}
ModelNames == {None, Some("gemini-3-pro-preview")}
ContentTypes == {None, Some("image/png"), Some("video/mp4")}
FileContents == {"", "PNG1"}
Speeds == {"fast", "powerful"}
IssueDescriptions == {"Incorrect dosage mentioned."}

\* the URLs an AnalyzeRequest carries: an HttpUrl is never empty
RequestVideoUrls == {None, Some("https://www.youtube.com/watch?v=dQw4w9WgXcQ")}
RequestImageUrls ==
    {None, Some("https://example.com/scans/image.jpg?size=2"),
     Some("https://example.com/image.jpg?next=/home")}
Filenames == {"scan.png"}

\* the outcomes of a storage call of upload_file: it returned, or it raised
StorageDone == [raises |-> FALSE, text |-> "", received |-> TRUE, at |-> ""]
StorageReplies(method) ==
    {StorageDone,
     [raises |-> TRUE,
      text |-> IF method = "upload_from_file" THEN "403 Forbidden: bucket access denied"
               ELSE "404 No such object",
      received |-> TRUE, at |-> method]}

\* what blob.content_type holds after blob.reload
UploadedContentTypes ==
    {None, Some("application/octet-stream"), Some("image/png"), Some("video/mp4")}

\* the remote model fails
RemoteErrors == {ErrorReply("503 UNAVAILABLE")}

\* one element of a structured payload
IssueJson(severity, location_json) ==
    "{\"start_timestamp\":\"00:10\",\"end_timestamp\":\"00:15\",\"severity\":\""
        \o severity
        \o "\",\"category\":\"medical_accuracy\",\"description\":\"Incorrect dosage mentioned.\""
        \o location_json \o "}"

\* the Issue that element is mapped onto
IssueOfJson(severity, location) ==
    [start_timestamp |-> "00:10", end_timestamp |-> "00:15", severity |-> severity,
     category |-> "medical_accuracy", description |-> "Incorrect dosage mentioned.",
     context |-> None, location |-> location]

\* a structured payload: the severities of its issues, the location member every
\* element carries, and its summary member
StructuredPayload(p) ==
    "{\"issues\":["
        \o join(",", [i \in 1..Len(p.severities) |-> IssueJson(p.severities[i], p.location)])
        \o "]" \o p.summary \o "}"

PayloadSeverities == {<<>>, <<"high">>, <<"high", "low", "high">>}
NoLocationJson == ""
InRangeLocationJson == ",\"location\":{\"x\":0.5,\"y\":1}"
OutOfRangeLocationJson == ",\"location\":{\"x\":1.5,\"y\":0.5}"
NoSummaryJson == ""
NullSummaryJson == ",\"summary\":null"
SummaryJson(text) == ",\"summary\":\"" \o text \o "\""
PayloadSummaryTexts == {"", "Found one issue."}
PayloadSummaries ==
    {NoSummaryJson, NullSummaryJson} \cup {SummaryJson(text) : text \in PayloadSummaryTexts}

\* payloads that differ in their issues and summary, in the location of their issue,
\* and one whose issue has a severity that is none of the levels
Payloads ==
    [severities : PayloadSeverities, location : {NoLocationJson}, summary : PayloadSummaries]
        \cup [severities : {<<"high">>},
              location : {InRangeLocationJson, OutOfRangeLocationJson},
              summary : {NoSummaryJson}]
        \cup {[severities |-> <<"urgent">>, location |-> NoLocationJson,
               summary |-> NoSummaryJson],
              [severities |-> <<"high", "urgent">>, location |-> NoLocationJson,
               summary |-> NoSummaryJson]}

\* a payload cut off inside its array, and one whose second element has a
\* description below the minimum length
TruncatedPayload == "{\"issues\":[" \o IssueJson("high", NoLocationJson)
ShortDescriptionPayload ==
    "{\"issues\":[" \o IssueJson("high", NoLocationJson)
        \o ",{\"start_timestamp\":\"00:20\",\"end_timestamp\":\"00:25\",\"severity\":\"low\","
        \o "\"category\":\"other\",\"description\":\"short\"}]}"

\* a payload whose element has timestamps that are no times
FreeTimestampPayload ==
    "{\"issues\":[{\"start_timestamp\":\"soon\",\"end_timestamp\":\"later\","
        \o "\"severity\":\"low\",\"category\":\"other\","
        \o "\"description\":\"Outdated guideline cited.\"}]}"

StructuredReplies ==
    {TextReply(StructuredPayload(p)) : p \in Payloads}
        \cup {TextReply("I cannot analyze this content."), TextReply(TruncatedPayload),
              TextReply(ShortDescriptionPayload), TextReply(FreeTimestampPayload)}
        \cup RemoteErrors

\* the bodies of ISSUE blocks a legacy text is made of
GoodBlock ==
    "\nStart: 00:10\nEnd: 00:15\nSeverity: high\nCategory: medical accuracy\n"
        \o "Description: Incorrect dosage mentioned.\nContext: The narrator says 50 mg.\n"
        \o "Location: {\"x\": 0.5, \"y\": 0.25}\n"
UnmatchedBlock ==
    "\nStart: 01:05\nSeverity: urgent\nCategory: unknown\nDescription: Outdated guideline cited.\n"
NoStartBlock == "\nSeverity: critical\nDescription: A block that has no start line.\n"
OutOfRangeBlock == "\nStart: 02:30\nEnd: n/a\nLocation: {\"x\": 1.5, \"y\": 0.5}\n"
BadLocationBlock == "\nStart: 00:20\nLocation: 5\n"
NaNLocationBlock == "\nStart: 00:50\nLocation: {\"x\": NaN, \"y\": 0.5}\n"
BadStartBlock == "\nStart: soon\nSeverity: low\n"
NoStartBadLocationBlock == "\nSeverity: high\nLocation: null\n"
ExampleBlock == "\nExample:\nStart: 00:01\nSeverity: low\n"
ShortBlock ==
    "\nStart: 03:00\nEnd: 03:10\nSeverity: LOW\nCategory: Dosage Concern\nDescription: short\n"

\* an End line that holds no timestamp and a description below the minimum length
NoEndShortBlock == "\nStart: 04:00\nEnd: later\nDescription: tiny\n"
\* an HH:MM:SS Start, an End whose digits run past the MM:SS form, and Severity
\* and Category lines whose field names are not in the case of the prompt
LongStampBlock ==
    "\nStart: 01:02:03\nEnd: at 123:456 roughly\n"
        \o "severity: CRITICAL risk\nCATEGORY: Wording Concern\n"
\* a well-formed block followed by text that holds Example:
TrailingExampleBlock ==
    "\nStart: 00:40\nSeverity: high\nDescription: Wrong unit in the table.\n"
        \o "Example: 5 mg, not 5 g\n"

BlockPool ==
    {GoodBlock, UnmatchedBlock, NoStartBlock, OutOfRangeBlock, BadLocationBlock,
     BadStartBlock, NoStartBadLocationBlock, ExampleBlock, ShortBlock,
     NoEndShortBlock, LongStampBlock, TrailingExampleBlock}

\* what precedes the first block and what follows the last
Preambles == {"", "Here is my review.\n"}
Postambles == {"", "NO ISSUES FOUND"}

\* the text of a sequence of blocks
BlocksText(blocks) == join("", [i \in 1..Len(blocks) |-> "ISSUE:" \o blocks[i]])

BlockSeqs == UNION {[1..k -> BlockPool] : k \in 0..MaxBlocks}

\* no block, or one
ShortBlockSeqs == {blocks \in BlockSeqs : Len(blocks) <= 1}

\* the texts with the sentinel on a line of its own: at the start of the text or
\* after the preamble, before a block, between two blocks, after a block
SentinelTexts ==
    {pre \o BlocksText(before) \o "NO ISSUES FOUND\n" \o BlocksText(after) :
        pre \in Preambles, before \in ShortBlockSeqs, after \in ShortBlockSeqs}

LegacyTexts ==
    {pre \o BlocksText(blocks) \o post :
        pre \in Preambles, blocks \in BlockSeqs, post \in Postambles}
        \cup SentinelTexts

\* the legacy replies the orchestrators are served
LegacyReplies ==
    {TextReply(text) :
        text \in {"NO ISSUES FOUND", "I cannot analyze this image.",
                  BlocksText(<<GoodBlock>>), BlocksText(<<OutOfRangeBlock>>),
                  BlocksText(<<GoodBlock, ShortBlock>>), BlocksText(<<BadLocationBlock>>),
                  BlocksText(<<ShortBlock, GoodBlock>>), BlocksText(<<GoodBlock, GoodBlock>>),
                  BlocksText(<<NoStartBlock, UnmatchedBlock>>),
                  BlocksText(<<NaNLocationBlock>>)}}
        \cup RemoteErrors

\* the replies to the locate prompt
InRangeLocateText == "{\"x\": 0.5, \"y\": 0.25}"
OutOfRangeLocateText == "{\"x\": 1.5, \"y\": 0.5}"
NaNLocateText == "{\"x\": NaN, \"y\": 0.5}"
LocateReplies ==
    {TextReply(text) :
        text \in {InRangeLocateText, OutOfRangeLocateText, NaNLocateText,
                  "The issue is at {\"x\": 1, \"y\": 0} in the image.",
                  "I cannot find it.", "{\"x\": 0.5}", "{\"x\": null, \"y\": 1}",
                  "{\"y\": -0.25, \"x\": 0.5}", "{\"x\": true, \"y\": false}",
                  "{\"x\": \"0.5\", \"y\": \"0.25\"}"}}
        \cup RemoteErrors

\* the issue ids a locate request names
IssueIds ==
    {image_id \o "_" \o idx : image_id \in UploadIds, idx \in {"0", "1"}}
        \cup {"img-0_0", "unknown"}

\* lists of Issues by their severities
SeveritySeqs == UNION {[1..k -> Range(Severity)] : k \in 0..MaxIssues}
IssuesOfSeverities(sevs) == [i \in 1..Len(sevs) |-> IssueOfJson(sevs[i], None)]

\* video references
UrlPrefixes ==
    {"https://www.youtube.com/watch?v=", "https://m.youtube.com/watch?v=",
     "https://youtu.be/", "gs://bucket/", "gs://bucket/dir/",
     "https://example.com/videos/", ""}
UrlRests ==
    {"dQw4w9WgXcQ", "video.mp4", "dQw4w9WgXcQ&t=10", "dQw4w9WgXcQ?si=x",
     "dQw4w9WgXcQ?si=x&t=1", "", "clip?u=youtu.be/abc", "clip&u=youtube.com/watch?v=abc"}
VideoReferences == {prefix \o rest : prefix \in UrlPrefixes, rest \in UrlRests}

(***************************************************************************)
(* The service: one call is served at a time.  A call runs up to its next  *)
(* await or to its invocation of the remote model (or to the error that    *)
(* ends it before), resumes on what it waited for, and its result is       *)
(* handed to the caller.                                                   *)
(***************************************************************************)
Init ==
    /\ uploaded_images = EmptyTable
    /\ request = NoRequest
    /\ remote_calls = <<>>
    /\ remote_reply = NoReply
    /\ response = NoResponse

\* AnalyzerService.analyze up to the awaited remote call
AnalyzerService_analyze_call ==
    /\ request = NoRequest
    /\ \E video_url \in VideoUrls, image_url \in ImageUrls, image_data \in ImageDatas,
          model_name \in ModelNames :
        /\ request' = [op |-> "AnalyzerService.analyze", video_url |-> video_url,
                       image_url |-> image_url, image_data |-> image_data,
                       model_name |-> model_name]
        /\ response' = validate_input(video_url, image_url, image_data)
        /\ remote_calls' =
               IF validate_input(video_url, image_url, image_data) = Pending
               THEN <<AnalyzerService_remote_call(video_url, image_url, image_data, model_name)>>
               ELSE <<>>
    /\ UNCHANGED <<uploaded_images, remote_reply>>

\* AnalyzerService.analyze from the reply on
AnalyzerService_analyze_reply ==
    /\ request.op = "AnalyzerService.analyze"
    /\ response = Pending
    /\ \E r \in StructuredReplies :
        /\ remote_reply' = r
        /\ remote_calls' = remote_calls_after(remote_calls, r)
        /\ response' = AnalyzerService_analyze_result(request.video_url, request.image_url, r)
    /\ UNCHANGED <<uploaded_images, request>>

\* VideoAnalyzer.analyze up to the remote call
VideoAnalyzer_analyze_call ==
    /\ request = NoRequest
    /\ \E video_url \in VideoUrls, image_url \in ImageUrls, image_data \in ImageDatas,
          frames \in CallerFrames :
        /\ request' = [op |-> "VideoAnalyzer.analyze", video_url |-> video_url,
                       image_url |-> image_url, image_data |-> image_data,
                       frames |-> frames]
        /\ response' = validate_input(video_url, image_url, image_data)
        /\ remote_calls' =
               IF validate_input(video_url, image_url, image_data) = Pending
               THEN <<VideoAnalyzer_remote_call(video_url, image_url, image_data)>>
               ELSE <<>>
    /\ UNCHANGED <<uploaded_images, remote_reply>>

\* VideoAnalyzer.analyze from the reply on
VideoAnalyzer_analyze_reply ==
    /\ request.op = "VideoAnalyzer.analyze"
    /\ response = Pending
    /\ \E r \in LegacyReplies :
        /\ remote_reply' = r
        /\ remote_calls' = remote_calls_after(remote_calls, r)
        /\ response' = VideoAnalyzer_analyze_result(request.video_url, request.image_url, r,
                                                    request.frames)
    /\ UNCHANGED <<uploaded_images, request>>

\* analyze_initial from its start to "await file.read()": the content type is
\* tested and the handler is suspended
analyze_initial_call ==
    /\ request = NoRequest
    /\ UploadIds \ DOMAIN uploaded_images # {}
    /\ \E content_type \in ContentTypes, file_content \in FileContents, speed \in Speeds,
          frames \in CallerFrames :
        /\ request' = [op |-> "analyze_initial", content_type |-> content_type,
                       file_content |-> file_content, speed |-> speed,
                       image_id |-> "", frames |-> frames]
        /\ response' = IF analyze_initial_stores(content_type)
                       THEN Awaiting("file.read")
                       ELSE analyze_initial_start(content_type, file_content)
    /\ remote_calls' = <<>>
    /\ UNCHANGED <<uploaded_images, remote_reply>>

\* analyze_initial from the bytes read to its remote call; image_id is the uuid4
\* drawn
analyze_initial_file_read ==
    /\ request.op = "analyze_initial"
    /\ response = Awaiting("file.read")
    /\ \E image_id \in UploadIds \ DOMAIN uploaded_images :
        /\ request' = [request EXCEPT !.image_id = image_id]
        /\ uploaded_images' = Store(uploaded_images, image_id, request.file_content)
    /\ response' = analyze_initial_start(request.content_type, request.file_content)
    /\ remote_calls' =
           IF analyze_initial_start(request.content_type, request.file_content) = Pending
           THEN <<[method |-> "analyze_image_without_location",
                   content |-> request.file_content,
                   model |-> speed_model_name(request.speed)]>>
           ELSE <<>>
    /\ UNCHANGED remote_reply

\* analyze_initial from the reply on
analyze_initial_reply ==
    /\ request.op = "analyze_initial"
    /\ response = Pending
    /\ \E r \in LegacyReplies :
        /\ remote_reply' = r
        /\ remote_calls' = remote_calls_after(remote_calls, r)
        /\ response' = analyze_initial_result(request.image_id, r, request.frames)
    /\ UNCHANGED <<uploaded_images, request>>

\* get_issue_location up to the remote call
get_issue_location_call ==
    /\ request = NoRequest
    /\ \E issue_id \in IssueIds, image_url \in ImageUrls,
          issue_description \in IssueDescriptions, frames \in CallerFrames,
          pydantic \in PydanticVersions :
        /\ request' = [op |-> "get_issue_location", issue_id |-> issue_id,
                       issue_description |-> issue_description, image_url |-> image_url,
                       frames |-> frames, pydantic |-> pydantic]
        /\ response' = get_issue_location_start(uploaded_images, issue_id, image_url)
        /\ remote_calls' =
               IF get_issue_location_start(uploaded_images, issue_id, image_url) = Pending
               THEN <<get_issue_location_remote_call(uploaded_images, issue_id, image_url,
                                                     issue_description)>>
               ELSE <<>>
    /\ UNCHANGED <<uploaded_images, remote_reply>>

\* get_issue_location from the reply on, with the upload removed once it was used
get_issue_location_reply_consuming ==
    /\ request.op = "get_issue_location"
    /\ response = Pending
    /\ \E r \in LocateReplies :
        /\ remote_reply' = r
        /\ remote_calls' = remote_calls_after(remote_calls, r)
        /\ response' = get_issue_location_result(request.issue_id, r, request.frames,
                                                 request.pydantic)
    /\ uploaded_images' =
           [k \in DOMAIN uploaded_images \ {image_id_of(request.issue_id)}
               |-> uploaded_images[k]]
    /\ UNCHANGED request

\* get_issue_location from the reply on
get_issue_location_reply ==
    /\ request.op = "get_issue_location"
    /\ response = Pending
    /\ \E r \in LocateReplies :
        /\ remote_reply' = r
        /\ remote_calls' = remote_calls_after(remote_calls, r)
        /\ response' = get_issue_location_result(request.issue_id, r, request.frames,
                                                 request.pydantic)
    /\ UNCHANGED <<uploaded_images, request>>

\* analyze_video up to the remote call
analyze_video_call ==
    /\ request = NoRequest
    /\ \E video_url \in RequestVideoUrls, image_url \in RequestImageUrls, speed \in Speeds,
          frames \in CallerFrames :
        /\ request' = [op |-> "analyze_video", video_url |-> video_url,
                       image_url |-> image_url, speed |-> speed, frames |-> frames]
        /\ response' = analyze_video_start(video_url, image_url)
        /\ remote_calls' =
               IF analyze_video_start(video_url, image_url) = Pending
               THEN <<route_remote_call(video_url, image_url, None, speed)>>
               ELSE <<>>
    /\ UNCHANGED <<uploaded_images, remote_reply>>

\* analyze_video from the reply on
analyze_video_reply ==
    /\ request.op = "analyze_video"
    /\ response = Pending
    /\ \E r \in LegacyReplies :
        /\ remote_reply' = r
        /\ remote_calls' = remote_calls_after(remote_calls, r)
        /\ response' = analyze_video_result(request.video_url, request.image_url, r,
                                            request.frames)
    /\ UNCHANGED <<uploaded_images, request>>

\* analyze_upload from its start to "await file.read()": the content type is
\* tested and the handler is suspended
analyze_upload_call ==
    /\ request = NoRequest
    /\ \E content_type \in ContentTypes, file_content \in FileContents, speed \in Speeds,
          frames \in CallerFrames :
        /\ request' = [op |-> "analyze_upload", content_type |-> content_type,
                       file_content |-> file_content, speed |-> speed, frames |-> frames]
        /\ response' = IF Truthy(content_type) /\ startswith(content_type[1], "image/")
                       THEN Awaiting("file.read")
                       ELSE analyze_upload_start(content_type, file_content)
    /\ remote_calls' = <<>>
    /\ UNCHANGED <<uploaded_images, remote_reply>>

\* analyze_upload from the bytes read to the remote call
analyze_upload_file_read ==
    /\ request.op = "analyze_upload"
    /\ response = Awaiting("file.read")
    /\ response' = analyze_upload_start(request.content_type, request.file_content)
    /\ remote_calls' =
           IF analyze_upload_start(request.content_type, request.file_content) = Pending
           THEN <<route_remote_call(None, None, Some(request.file_content), request.speed)>>
           ELSE <<>>
    /\ UNCHANGED <<uploaded_images, request, remote_reply>>

\* analyze_upload from the reply on
analyze_upload_reply ==
    /\ request.op = "analyze_upload"
    /\ response = Pending
    /\ \E r \in LegacyReplies :
        /\ remote_reply' = r
        /\ remote_calls' = remote_calls_after(remote_calls, r)
        /\ response' = analyze_upload_result(r, request.frames)
    /\ UNCHANGED <<uploaded_images, request>>

\* upload_file from its start to "await asyncio.to_thread(blob.upload_from_file, ...)"
upload_file_call ==
    /\ request = NoRequest
    /\ \E filename \in Filenames, content_type \in ContentTypes,
          pydantic \in PydanticVersions :
        /\ request' = [op |-> "upload_file", filename |-> filename,
                       content_type |-> content_type, pydantic |-> pydantic]
        /\ remote_calls' = <<upload_file_calls("blob.upload_from_file", filename)>>
    /\ response' = Awaiting("blob.upload_from_file")
    /\ UNCHANGED <<uploaded_images, remote_reply>>

\* upload_file from the outcome of blob.upload_from_file to
\* "await asyncio.to_thread(blob.reload)", or to the except clause
upload_file_uploaded ==
    /\ request.op = "upload_file"
    /\ response = Awaiting("blob.upload_from_file")
    /\ \E r \in StorageReplies("upload_from_file") :
        /\ remote_reply' = r
        /\ remote_calls' = IF r.raises THEN remote_calls
                           ELSE Append(remote_calls,
                                       upload_file_calls("blob.reload", request.filename))
        /\ response' = IF r.raises THEN upload_file_failed(r.text)
                       ELSE Awaiting("blob.reload")
    /\ UNCHANGED <<uploaded_images, request>>

\* upload_file from the outcome of blob.reload to its return
upload_file_reply ==
    /\ request.op = "upload_file"
    /\ response = Awaiting("blob.reload")
    /\ \E r \in StorageReplies("reload"), content_type \in UploadedContentTypes :
        /\ remote_reply' = r
        /\ response' = upload_file_result(request.filename, content_type, r,
                                          request.pydantic)
    /\ UNCHANGED <<uploaded_images, request, remote_calls>>

\* the result reaches the caller and the next call can be served
Respond ==
    /\ response.kind \in {"returned", "raised"}
    /\ request.op \in {"AnalyzerService.analyze", "VideoAnalyzer.analyze",
                       "analyze_initial", "get_issue_location",
                       "analyze_video", "analyze_upload", "upload_file"}
    /\ request' = NoRequest
    /\ remote_calls' = <<>>
    /\ remote_reply' = NoReply
    /\ response' = NoResponse
    /\ UNCHANGED uploaded_images

Next ==
    \/ AnalyzerService_analyze_call
    \/ AnalyzerService_analyze_reply
    \/ VideoAnalyzer_analyze_call
    \/ VideoAnalyzer_analyze_reply
    \/ analyze_initial_call
    \/ analyze_initial_file_read
    \/ analyze_initial_reply
    \/ get_issue_location_call
    \/ get_issue_location_reply
    \/ analyze_video_call
    \/ analyze_video_reply
    \/ analyze_upload_call
    \/ analyze_upload_file_read
    \/ analyze_upload_reply
    \/ upload_file_call
    \/ upload_file_uploaded
    \/ upload_file_reply
    \/ Respond

Spec == Init /\ [][Next]_vars

(***************************************************************************)
(* The two-step protocol under concurrent Phase-1 calls (SpecTwoStep).     *)
(* request holds one record per Phase-1 call, the calls named by order of  *)
(* arrival; a call yields at "await file.read()" and, as the protocol      *)
(* describes it, during its remote call.  uuid4 is taken to hand out an    *)
(* identifier no entry of the table has.  get_issue_location has no await: *)
(* it runs whole, and response, remote_calls and remote_reply hold the     *)
(* last locate call.                                                       *)
(***************************************************************************)
Phase1Calls == 1..MaxUploads

\* the bytes call c uploads
BytesOf(c) == "PNG" \o str_of_nat(c)

Phase1Call(pc, file_content, image_id, result) ==
    [pc |-> pc, file_content |-> file_content, image_id |-> image_id, result |-> result]

IdleCall == Phase1Call("idle", "", "", NoResponse)

Phase1Replies ==
    {TextReply(BlocksText(<<GoodBlock, ShortBlock>>)), TextReply("NO ISSUES FOUND")}
        \cup RemoteErrors

TwoStepLocateReplies == {TextReply(InRangeLocateText)} \cup RemoteErrors

\* the issue ids the locate calls name: the first of every upload, and a malformed one
TwoStepIssueIds == {image_id \o "_0" : image_id \in UploadIds} \cup {"unknown"}

\* the issue ids a completed Phase-1 call returned
IssuedIds(call) ==
    IF call.pc = "done" /\ call.result.kind = "returned"
    THEN {call.result.v.issues[i].issue_id : i \in 1..Len(call.result.v.issues)}
    ELSE {}

InitTwoStep ==
    /\ uploaded_images = EmptyTable
    /\ request = [c \in Phase1Calls |-> IdleCall]
    /\ remote_calls = <<>>
    /\ remote_reply = NoReply
    /\ response = NoResponse

\* analyze_initial from its start to "await file.read()"
analyze_initial_read(c) ==
    /\ request[c].pc = "idle"
    /\ c > 1 => request[c - 1].pc # "idle"
    /\ request' = [request EXCEPT ![c] = Phase1Call("read", BytesOf(c), "", NoResponse)]
    /\ UNCHANGED <<uploaded_images, remote_calls, remote_reply, response>>

\* analyze_initial from the bytes read to its remote call
analyze_initial_store(c) ==
    /\ request[c].pc = "read"
    /\ \E image_id \in UploadIds \ DOMAIN uploaded_images :
        /\ uploaded_images' = Store(uploaded_images, image_id, request[c].file_content)
        /\ request' = [request EXCEPT ![c] =
                          Phase1Call("awaiting", request[c].file_content, image_id,
                                     analyze_initial_start(Some("image/png"),
                                                           request[c].file_content))]
    /\ UNCHANGED <<remote_calls, remote_reply, response>>

\* analyze_initial from the reply of the remote model on
analyze_initial_resume(c) ==
    /\ request[c].pc = "awaiting"
    /\ \E r \in Phase1Replies, frames \in CallerFrames :
        request' = [request EXCEPT ![c] =
                       Phase1Call("done", request[c].file_content, request[c].image_id,
                                  analyze_initial_result(request[c].image_id, r, frames))]
    /\ UNCHANGED <<uploaded_images, remote_calls, remote_reply, response>>

\* what a locate call leaves: its issue id, whether Phase 1 had returned that id
\* when the call was made, and its result
LocateRecord(issue_id, start, r, frames, pydantic) ==
    [issue_id |-> issue_id,
     issued |-> \E c \in Phase1Calls : issue_id \in IssuedIds(request[c]),
     result |-> IF start = Pending
                THEN get_issue_location_result(issue_id, r, frames, pydantic)
                ELSE start]

\* get_issue_location, whole
get_issue_location_whole ==
    \E issue_id \in TwoStepIssueIds, r \in TwoStepLocateReplies, frames \in CallerFrames,
       pydantic \in PydanticVersions :
        /\ response' = LocateRecord(issue_id,
                                    get_issue_location_start(uploaded_images, issue_id, None),
                                    r, frames, pydantic)
        /\ remote_calls' =
               IF get_issue_location_start(uploaded_images, issue_id, None) = Pending
               THEN <<get_issue_location_remote_call(uploaded_images, issue_id, None,
                                                     "Incorrect dosage mentioned.")>>
               ELSE <<>>
        /\ remote_reply' =
               IF get_issue_location_start(uploaded_images, issue_id, None) = Pending
               THEN r ELSE NoReply
        /\ UNCHANGED <<uploaded_images, request>>

NextTwoStep ==
    \/ \E c \in Phase1Calls : analyze_initial_read(c)
    \/ \E c \in Phase1Calls : analyze_initial_store(c)
    \/ \E c \in Phase1Calls : analyze_initial_resume(c)
    \/ get_issue_location_whole

SpecTwoStep == InitTwoStep /\ [][NextTwoStep]_vars

(***************************************************************************)
(* The pure functions, each applied to an input drawn at the start.        *)
(***************************************************************************)
\* what a function returned or raised, as a response
ResultOf(r) == IF r.exc # "" THEN Raised(r.exc, text_of(r.text)) ELSE Returned(r.v)

InitWith(requests) ==
    /\ uploaded_images = EmptyTable
    /\ request \in requests
    /\ remote_calls = <<>>
    /\ remote_reply = NoReply
    /\ response = NoResponse

InitParse ==
    InitWith({[op |-> "_parse_issues", raw_analysis |-> text, frames |-> frames] :
                 text \in LegacyTexts, frames \in CallerFrames})

\* VideoAnalyzer._parse_issues(raw_analysis)
ParseIssues ==
    /\ request.op = "_parse_issues"
    /\ response = NoResponse
    /\ response' = ResultOf(_parse_issues(request.raw_analysis, request.frames))
    /\ UNCHANGED <<uploaded_images, request, remote_calls, remote_reply>>

SpecParse == InitParse /\ [][ParseIssues]_vars

InitSummary ==
    InitWith({[op |-> "_generate_summary", cls |-> cls, issues |-> IssuesOfSeverities(sevs)] :
                 cls \in {"VideoAnalyzer", "AnalyzerService"}, sevs \in SeveritySeqs})

\* VideoAnalyzer._generate_summary(issues, raw_analysis)
VideoAnalyzer_GenerateSummary ==
    /\ request.op = "_generate_summary"
    /\ request.cls = "VideoAnalyzer"
    /\ response = NoResponse
    /\ response' = Returned(VideoAnalyzer_generate_summary(request.issues))
    /\ UNCHANGED <<uploaded_images, request, remote_calls, remote_reply>>

\* AnalyzerService._generate_summary(issues, raw_analysis)
AnalyzerService_GenerateSummary ==
    /\ request.op = "_generate_summary"
    /\ request.cls = "AnalyzerService"
    /\ response = NoResponse
    /\ response' = Returned(AnalyzerService_generate_summary(request.issues))
    /\ UNCHANGED <<uploaded_images, request, remote_calls, remote_reply>>

NextSummary == VideoAnalyzer_GenerateSummary \/ AnalyzerService_GenerateSummary

SpecSummary == InitSummary /\ [][NextSummary]_vars

InitVideoId ==
    InitWith({[op |-> "extract_video_id", video_url |-> url] : url \in VideoReferences})

\* GeminiClient.extract_video_id(video_url)
ExtractVideoId ==
    /\ request.op = "extract_video_id"
    /\ response = NoResponse
    /\ response' = Returned(extract_video_id(request.video_url))
    /\ UNCHANGED <<uploaded_images, request, remote_calls, remote_reply>>

SpecVideoId == InitVideoId /\ [][ExtractVideoId]_vars

(***************************************************************************)
(* get_file: one request, from the call to the end of its stream, a step   *)
(* from each resumption to the next await or yield.  remote_reply holds    *)
(* the file the body is read from, and where its generator is suspended.   *)
(***************************************************************************)
RangeHeaders ==
    {None, Some(""), Some("bytes=0-1023"), Some("bytes=0-"), Some("bytes=5-2"),
     Some("bytes=-500"), Some("bytes=10-"), Some("bytes=9-9"), Some("bytes=0-5,10-15"),
     Some("bytes=abc-"), Some("bytes=70000-149999"), Some("bytes=200000-"),
     Some("bytes=3-x"), Some("bytes= 2 - 4 ")}
FileSizes == {0, 10, 65536, 150000}
BlobExists == {"true", "false", "raises"}
BlobContentTypes == {None, Some("video/mp4")}
FilePaths == {"dev/a.mp4"}

InitGetFile ==
    /\ uploaded_images = EmptyTable
    /\ request = NoRequest
    /\ remote_calls = <<>>
    /\ remote_reply = NoReply
    /\ response = NoResponse

\* get_file from its start to "await asyncio.to_thread(blob.exists)"
get_file_call ==
    /\ request = NoRequest
    /\ \E range_header \in RangeHeaders :
        request' = [op |-> "get_file", range_header |-> range_header]
    /\ response' = Awaiting("blob.exists")
    /\ UNCHANGED <<uploaded_images, remote_calls, remote_reply>>

\* get_file from what blob.exists gave to "await asyncio.to_thread(blob.reload)"
get_file_exists ==
    /\ request.op = "get_file"
    /\ response = Awaiting("blob.exists")
    /\ \E blob_exists \in BlobExists :
        /\ request' = request @@ [blob_exists |-> blob_exists]
        /\ response' = IF blob_exists = "true" THEN Awaiting("blob.reload")
                       ELSE get_file_response(blob_exists, request.range_header, 0, None)
    /\ UNCHANGED <<uploaded_images, remote_calls, remote_reply>>

\* get_file from the outcome of blob.reload to its return: the metadata it
\* loaded, or the exception it raised (the object was deleted after blob.exists
\* answered, or the storage service failed)
get_file_reload ==
    /\ request.op = "get_file"
    /\ response = Awaiting("blob.reload")
    /\ \/ \E file_size \in FileSizes, content_type \in BlobContentTypes :
            /\ request' = request @@ [blob_reload |-> "loaded", file_size |-> file_size,
                                      content_type |-> content_type]
            /\ response' = get_file_response(request.blob_exists, request.range_header,
                                             file_size, content_type)
       \/ /\ request' = request @@ [blob_reload |-> "raises"]
          /\ response' = get_file_failed
    /\ UNCHANGED <<uploaded_images, remote_calls, remote_reply>>

\* delete_file from its start to "await asyncio.to_thread(blob.exists)".  The
\* bucket is the state of the storage service, which this and every other client
\* change: what a call of the service answers is drawn when it answers
delete_file_call ==
    /\ request = NoRequest
    /\ \E file_path \in FilePaths :
        request' = [op |-> "delete_file", file_path |-> file_path]
    /\ response' = Awaiting("blob.exists")
    /\ UNCHANGED <<uploaded_images, remote_calls, remote_reply>>

\* delete_file from what blob.exists gave to "await asyncio.to_thread(blob.delete)"
delete_file_exists ==
    /\ request.op = "delete_file"
    /\ response = Awaiting("blob.exists")
    /\ \E blob_exists \in BlobExists :
        /\ request' = request @@ [blob_exists |-> blob_exists]
        /\ response' = IF blob_exists = "true" THEN Awaiting("blob.delete")
                       ELSE delete_file_response(request.file_path, blob_exists, "")
    /\ UNCHANGED <<uploaded_images, remote_calls, remote_reply>>

\* delete_file from the outcome of blob.delete to its return
delete_file_reply ==
    /\ request.op = "delete_file"
    /\ response = Awaiting("blob.delete")
    /\ \E blob_delete \in {"deleted", "raises"} :
        /\ request' = request @@ [blob_delete |-> blob_delete]
        /\ response' = delete_file_response(request.file_path, request.blob_exists,
                                            blob_delete)
    /\ UNCHANGED <<uploaded_images, remote_calls, remote_reply>>

\* iterfile from its start to "await asyncio.to_thread(f.seek, start)": blob.open
\* gave the file, or raised before the try block
iterfile_open ==
    /\ request.op = "get_file"
    /\ response.kind = "returned" /\ response.v.status_code = 206
    /\ remote_reply = NoReply
    /\ remote_reply' \in {OpenFile("iterfile"), UnopenedFile("iterfile")}
    /\ UNCHANGED <<uploaded_images, request, remote_calls, response>>

\* iterfile from the outcome of f.seek to the await of the loop's first pass, or
\* to the await of f.close when f.seek raised
iterfile_seek ==
    /\ remote_reply # NoReply /\ remote_reply.iter = "iterfile"
    /\ remote_reply.at = "opened"
    /\ \/ remote_reply' = [remote_reply EXCEPT !.pos = response.v.start, !.at = "loop"]
                               @@ [remaining |-> response.v.chunk_size]
       \/ remote_reply' = ClosingFile(remote_reply, "raised")
    /\ UNCHANGED <<uploaded_images, request, remote_calls, response>>

\* iterfile from the outcome of f.read to "yield data", or to the await of
\* f.close when there is no data or f.read raised
iterfile_read ==
    /\ remote_reply # NoReply /\ remote_reply.iter = "iterfile"
    /\ remote_reply.at = "loop"
    /\ remote_reply.remaining > 0
    /\ \/ /\ remote_reply' =
                 [remote_reply EXCEPT
                     !.pos = @ + iterfile_data(remote_reply, request.file_size),
                     !.data = iterfile_data(remote_reply, request.file_size),
                     !.at = IF iterfile_data(remote_reply, request.file_size) = 0
                            THEN "closing" ELSE "yielded"]
          /\ response' = [response EXCEPT !.v.body =
                              @ + iterfile_data(remote_reply, request.file_size)]
       \/ /\ remote_reply' = ClosingFile(remote_reply, "raised")
          /\ UNCHANGED response
    /\ UNCHANGED <<uploaded_images, request, remote_calls>>

\* iterfile from the yield to the next await: remaining -= len(data)
iterfile_resume ==
    /\ remote_reply # NoReply /\ remote_reply.iter = "iterfile"
    /\ remote_reply.at = "yielded"
    /\ remote_reply' = [remote_reply EXCEPT !.remaining = @ - remote_reply.data,
                                            !.data = 0, !.at = "loop"]
    /\ UNCHANGED <<uploaded_images, request, remote_calls, response>>

\* iterfile: the consumer closes the generator at its yield (aclose, as the
\* server does when the client has gone): GeneratorExit is raised at the yield
\* and the finally clause awaits f.close
iterfile_aclose ==
    /\ remote_reply # NoReply /\ remote_reply.iter = "iterfile"
    /\ remote_reply.at = "yielded"
    /\ remote_reply' = ClosingFile(remote_reply, "aclose")
    /\ UNCHANGED <<uploaded_images, request, remote_calls, response>>

\* iterfile: the loop has ended, or was left for the finally clause, and f.close
\* is done or has raised
iterfile_close ==
    /\ remote_reply # NoReply /\ remote_reply.iter = "iterfile"
    /\ \/ remote_reply.at = "loop" /\ remote_reply.remaining <= 0
       \/ remote_reply.at = "closing"
    /\ remote_reply' \in {ClosedFile(remote_reply)}
                          \cup {UnclosedFile(remote_reply, open) : open \in BOOLEAN}
    /\ UNCHANGED <<uploaded_images, request, remote_calls, response>>

\* full_iterfile from its start to the await of the loop's first pass: blob.open
\* gave the file, or raised before the try block
full_iterfile_open ==
    /\ request.op = "get_file"
    /\ response.kind = "returned" /\ response.v.status_code = 200
    /\ remote_reply = NoReply
    /\ remote_reply' \in {[OpenFile("full_iterfile") EXCEPT !.at = "loop"],
                          UnopenedFile("full_iterfile")}
    /\ UNCHANGED <<uploaded_images, request, remote_calls, response>>

\* full_iterfile from the outcome of f.read to "yield data", or to the await of
\* f.close when there is no data or f.read raised
full_iterfile_read ==
    /\ remote_reply # NoReply /\ remote_reply.iter = "full_iterfile"
    /\ remote_reply.at = "loop"
    /\ \/ /\ remote_reply' =
                 [remote_reply EXCEPT
                     !.pos = @ + full_iterfile_data(remote_reply, request.file_size),
                     !.data = full_iterfile_data(remote_reply, request.file_size),
                     !.at = IF full_iterfile_data(remote_reply, request.file_size) = 0
                            THEN "closing" ELSE "yielded"]
          /\ response' = [response EXCEPT !.v.body =
                              @ + full_iterfile_data(remote_reply, request.file_size)]
       \/ /\ remote_reply' = ClosingFile(remote_reply, "raised")
          /\ UNCHANGED response
    /\ UNCHANGED <<uploaded_images, request, remote_calls>>

\* full_iterfile from the yield to the next await
full_iterfile_resume ==
    /\ remote_reply # NoReply /\ remote_reply.iter = "full_iterfile"
    /\ remote_reply.at = "yielded"
    /\ remote_reply' = [remote_reply EXCEPT !.data = 0, !.at = "loop"]
    /\ UNCHANGED <<uploaded_images, request, remote_calls, response>>

\* full_iterfile: the consumer closes the generator at its yield (aclose):
\* GeneratorExit is raised at the yield and the finally clause awaits f.close
full_iterfile_aclose ==
    /\ remote_reply # NoReply /\ remote_reply.iter = "full_iterfile"
    /\ remote_reply.at = "yielded"
    /\ remote_reply' = ClosingFile(remote_reply, "aclose")
    /\ UNCHANGED <<uploaded_images, request, remote_calls, response>>

\* full_iterfile: the loop was left for the finally clause and f.close is done or
\* has raised
full_iterfile_close ==
    /\ remote_reply # NoReply /\ remote_reply.iter = "full_iterfile"
    /\ remote_reply.at = "closing"
    /\ remote_reply' \in {ClosedFile(remote_reply)}
                          \cup {UnclosedFile(remote_reply, open) : open \in BOOLEAN}
    /\ UNCHANGED <<uploaded_images, request, remote_calls, response>>

NextGetFile ==
    \/ get_file_call
    \/ get_file_exists
    \/ get_file_reload
    \/ iterfile_open
    \/ iterfile_seek
    \/ iterfile_read
    \/ iterfile_resume
    \/ iterfile_aclose
    \/ iterfile_close
    \/ full_iterfile_open
    \/ full_iterfile_read
    \/ full_iterfile_resume
    \/ full_iterfile_aclose
    \/ full_iterfile_close
    \/ delete_file_call
    \/ delete_file_exists
    \/ delete_file_reply

SpecGetFile == InitGetFile /\ [][NextGetFile]_vars

\* the environments Settings is constructed in
CloudProjects == {None, Some(""), Some("test-project"), Some("other-project")}
CloudLocations == {"", "global", "us-central1"}
ApiKeys == {None, Some(""), Some("test-key")}

InitSettings ==
    InitWith({[op |-> "Settings", google_genai_use_vertexai |-> use,
               google_cloud_project |-> project, google_cloud_location |-> location,
               gemini_api_key |-> key] :
                 use \in BOOLEAN, project \in CloudProjects, location \in CloudLocations,
                 key \in ApiKeys})

\* Settings()
ConstructSettings ==
    /\ request.op = "Settings"
    /\ response = NoResponse
    /\ response' = validate_genai_config(request.google_genai_use_vertexai,
                                         request.google_cloud_project,
                                         request.google_cloud_location,
                                         request.gemini_api_key)
    /\ UNCHANGED <<uploaded_images, request, remote_calls, remote_reply>>

SpecSettings == InitSettings /\ [][ConstructSettings]_vars

(***************************************************************************)
(* Properties of the orchestrators (Spec).                                 *)
(***************************************************************************)
AnalyzeOps == {"AnalyzerService.analyze", "VideoAnalyzer.analyze"}

\* a content source the caller supplied: present and not empty
Supplied(x) == x # None /\ x # Some("")

SuppliedCount(req) ==
    Cardinality({k \in {"video_url", "image_url", "image_data"} : Supplied(req[k])})

RaisedValueError(text) ==
    /\ response.kind = "raised"
    /\ response.exc = "ValueError"
    /\ contains(response.message, text)

\* C1: analyze accepts exactly one content source (a source left empty counts as not
\* supplied).  With none it raises a ValueError whose message holds "must be
\* provided", with more than one a ValueError whose message holds "multiple
\* inputs"; neither message holds the other's phrase, and in both cases no remote
\* call has been made.  With exactly one the remote model is called.
C1_ExactlyOneInput ==
    request.op \in AnalyzeOps /\ response # NoResponse =>
        /\ SuppliedCount(request) = 0 =>
               /\ RaisedValueError("must be provided")
               /\ ~contains(response.message, "multiple inputs")
               /\ remote_calls = <<>>
        /\ SuppliedCount(request) > 1 =>
               /\ RaisedValueError("multiple inputs")
               /\ ~contains(response.message, "must be provided")
               /\ remote_calls = <<>>
        /\ SuppliedCount(request) = 1 =>
               /\ Len(remote_calls) = 1
               /\ ~(response.kind = "raised" /\ response.exc = "ValueError")

\* a call with a video and an image has been rejected
C1_Witness ==
    /\ request.op \in AnalyzeOps
    /\ Supplied(request.video_url) /\ Supplied(request.image_url)
    /\ RaisedValueError("multiple inputs")
    /\ remote_calls = <<>>

\* C2: every result returned by analyze, and every Phase-1 response, has
\* total_issues equal to the number of Issues in its issues sequence.
C2_TotalIssues ==
    response.kind = "returned" /\ request.op \in AnalyzeOps \cup {"analyze_initial"} =>
        response.v.total_issues = Len(response.v.issues)

\* a Phase-1 response with two issues
C2_Witness ==
    /\ request.op = "analyze_initial"
    /\ response.kind = "returned"
    /\ Len(response.v.issues) = 2
    /\ response.v.total_issues = 2

InUnitSquare(location) ==
    /\ float_ge_zero(location.x) /\ float_le_one(location.x)
    /\ float_ge_zero(location.y) /\ float_le_one(location.y)

OutOfRangePayload ==
    StructuredPayload([severities |-> <<"high">>, location |-> OutOfRangeLocationJson,
                       summary |-> NoSummaryJson])

\* C4: every Location the service returns, from a legacy Location line, from a
\* structured payload or from the locate step, has 0 <= x <= 1 and 0 <= y <= 1;
\* a coordinate out of range in the model's text yields no Location: the legacy
\* Issue is returned without one, the structured payload and the locate reply
\* make the call fail.  A NaN is out of range as well.
C4_LocationsInRange ==
    /\ response.kind = "returned" /\ request.op \in AnalyzeOps =>
           \A i \in 1..Len(response.v.issues) :
               response.v.issues[i].location # None =>
                   InUnitSquare(response.v.issues[i].location[1])
    /\ response.kind = "returned" /\ request.op = "get_issue_location" =>
           InUnitSquare(response.v.location)
    /\ request.op = "get_issue_location"
           /\ remote_reply \in {TextReply(OutOfRangeLocateText), TextReply(NaNLocateText)} =>
           response.kind = "raised"
    /\ request.op = "VideoAnalyzer.analyze"
           /\ remote_reply \in {TextReply(BlocksText(<<OutOfRangeBlock>>)),
                                TextReply(BlocksText(<<NaNLocationBlock>>))} =>
           /\ response.kind = "returned"
           /\ Len(response.v.issues) = 1
           /\ response.v.issues[1].location = None
    /\ request.op = "AnalyzerService.analyze" /\ remote_reply = TextReply(OutOfRangePayload) =>
           response.kind = "raised"

\* the locate step was answered x = 1.5 and failed
C4_Witness ==
    /\ request.op = "get_issue_location"
    /\ remote_reply = TextReply(OutOfRangeLocateText)
    /\ response.kind = "raised"
    /\ response.status_code = 500

\* the payloads the schema admits
ValidPayloads ==
    {p \in Payloads : p.location # OutOfRangeLocationJson
                      /\ \A i \in 1..Len(p.severities) : p.severities[i] \in Range(Severity)}

\* the Issues of a valid payload
PayloadIssues(p) ==
    [i \in 1..Len(p.severities) |->
        IssueOfJson(p.severities[i],
                    IF p.location = InRangeLocationJson
                    THEN Some([x |-> FloatHalf, y |-> FloatOne]) ELSE None)]

\* C8, as the code has it: the result's summary is the payload's summary verbatim
\* when the payload carries a summary that is not empty; it is the generated
\* summary when the payload carries none, null or the empty string.  The payload of
\* one issue with summary "Found one issue." gives exactly one Issue, of severity
\* high, and the summary "Found one issue.".
C8_SummaryVerbatimUnlessEmpty ==
    request.op = "AnalyzerService.analyze" =>
        \A p \in ValidPayloads :
            remote_reply = TextReply(StructuredPayload(p)) =>
                /\ response.kind = "returned"
                /\ response.v.issues = PayloadIssues(p)
                /\ \A text \in PayloadSummaryTexts \ {""} :
                       p.summary = SummaryJson(text) => response.v.summary = text
                /\ p.summary \in {NoSummaryJson, NullSummaryJson, SummaryJson("")} =>
                       response.v.summary = AnalyzerService_generate_summary(PayloadIssues(p))

OneIssuePayload ==
    StructuredPayload([severities |-> <<"high">>, location |-> NoLocationJson,
                       summary |-> SummaryJson("Found one issue.")])

\* the one-issue payload was returned with its own summary
C8_Witness ==
    /\ request.op = "AnalyzerService.analyze"
    /\ remote_reply = TextReply(OneIssuePayload)
    /\ response.kind = "returned"
    /\ Len(response.v.issues) = 1
    /\ response.v.issues[1].severity = "high"
    /\ response.v.summary = "Found one issue."

\* C8 as stated: whenever the payload carries a summary, the result's summary
\* equals it verbatim.
C8_SummaryVerbatim ==
    request.op = "AnalyzerService.analyze" =>
        \A p \in ValidPayloads :
            \A text \in PayloadSummaryTexts :
                remote_reply = TextReply(StructuredPayload(p)) /\ p.summary = SummaryJson(text) =>
                    response.kind = "returned" /\ response.v.summary = text

\* C12: a locate call whose recovered upload id has no entry in the table (never
\* created, unknown or malformed id) goes to the remote model with the caller's
\* image URL and no bytes when the caller gave a URL, and is not answered 404;
\* with no URL it makes no remote call and fails with status 404, naming the
\* recovered id.
C12_AbsentUploadFallsBackOrNotFound ==
    /\ request.op = "get_issue_location"
    /\ response # NoResponse
    /\ image_id_of(request.issue_id) \notin DOMAIN uploaded_images
    => IF Truthy(request.image_url)
       THEN /\ Len(remote_calls) = 1
            /\ remote_calls[1].image_url = request.image_url
            /\ remote_calls[1].image_data = None
            /\ ~(response.kind = "raised" /\ response.status_code = 404)
       ELSE /\ response = HTTPException(404, "Image not found. Image ID: "
                                             \o image_id_of(request.issue_id))
            /\ remote_calls = <<>>

\* a locate call with the malformed id "unknown" and no image URL was answered 404
C12_Witness ==
    /\ request.op = "get_issue_location"
    /\ request.issue_id = "unknown"
    /\ request.image_url = None
    /\ response.kind = "raised"
    /\ response.status_code = 404
    /\ remote_calls = <<>>

\* C14: when the remote model or the storage collaborator raises, the body of the
\* internal-error response holds none of the collaborator's error text.
C14_UpstreamErrorIsGeneric ==
    remote_reply.raises /\ response.kind = "raised" =>
        ~contains(response.message, remote_reply.text)

\* the endpoints that take the content to analyze
RequestOps == {"analyze_video", "analyze_upload"}

\* a request of an endpoint that provides no content, or more than one kind
CallerFault ==
    \/ /\ request.op = "analyze_video"
       /\ Truthy(request.video_url) = Truthy(request.image_url)
    \/ /\ request.op = "analyze_upload"
       /\ request.file_content = ""

\* C15: at the request endpoints a request that provides no content, or more than
\* one kind of content, is answered with status 400, and a failure of the remote
\* model with status 500; the first is never rendered 500, the second never 400.
C15_CallerFaultIs400 ==
    request.op \in RequestOps /\ response.kind \in {"returned", "raised"} =>
        /\ CallerFault => response.kind = "raised" /\ response.status_code = 400
        /\ remote_reply.raises => response.kind = "raised" /\ response.status_code = 500

\* the requests that invoke the remote model
ModelOps ==
    {"AnalyzerService.analyze", "VideoAnalyzer.analyze", "analyze_video", "analyze_upload",
     "analyze_initial", "get_issue_location"}

\* C16: every analyze, Phase-1 and Phase-2 request invokes the remote model at most
\* once; when that invocation has failed the request ends with an error and the
\* model has still been invoked once.
C16_NoRetry ==
    request.op \in ModelOps =>
        /\ Len(remote_calls) <= 1
        /\ remote_reply.raises => response.kind = "raised" /\ Len(remote_calls) = 1

\* the remote call of analyze_video failed and the request ended with status 500
\* after one invocation
C16_Witness ==
    /\ request.op = "analyze_video"
    /\ remote_reply.raises
    /\ response.kind = "raised"
    /\ response.status_code = 500
    /\ Len(remote_calls) = 1

\* the model a remote call of an endpoint with a speed selector names
ModelOfCall(call) == call.model

\* C19: every remote model call of a request with a speed selector names one of
\* the two configured models, Settings.gemini_model_fast for the selector fast and
\* Settings.gemini_model_powerful for the selector powerful.
C19_ConfiguredModels ==
    request.op \in {"analyze_video", "analyze_upload", "analyze_initial"} =>
        \A i \in 1..Len(remote_calls) :
            /\ ModelOfCall(remote_calls[i]) \in {gemini_model_fast, gemini_model_powerful}
            /\ request.speed = "fast" => ModelOfCall(remote_calls[i]) = gemini_model_fast
            /\ request.speed = "powerful" =>
                   ModelOfCall(remote_calls[i]) = gemini_model_powerful

(***************************************************************************)
(* Properties of the legacy parser (SpecParse).                            *)
(***************************************************************************)
\* a line of the block takes the Severity branch (its text, stripped and in lower
\* case, starts with severity:) and what follows its first colon names a level
SeverityNamed(block) ==
    \E line \in Range(split(block, "\n")) :
        /\ startswith(lower(strip(line)), "severity:")
        /\ \E i \in 1..Len(Severity) :
               contains(lower(strip(after_first(strip(line), ":"))), Severity[i])

\* a line of the block takes the Category branch and what follows its first colon,
\* in lower case and with _ for each space, holds the value of a category
CategoryNamed(block) ==
    \E line \in Range(split(block, "\n")) :
        /\ startswith(lower(strip(line)), "category:")
        /\ \E i \in 1..Len(IssueCategory) :
               contains(replace(lower(strip(after_first(strip(line), ":"))), " ", "_"),
                        IssueCategory[i])

\* C5: for every legacy text that holds the sentinel NO ISSUES FOUND anywhere,
\* the parser returns the empty sequence of Issues, whatever blocks surround it.
C5_SentinelEmpties ==
    /\ request.op = "_parse_issues"
    /\ response # NoResponse
    /\ contains(request.raw_analysis, "NO ISSUES FOUND")
    => response = Returned(<<>>)

\* a text with the sentinel between two well-formed blocks was parsed to nothing
C5_Witness ==
    /\ request.op = "_parse_issues"
    /\ request.raw_analysis =
           BlocksText(<<GoodBlock>>) \o "NO ISSUES FOUND\n" \o BlocksText(<<UnmatchedBlock>>)
    /\ response = Returned(<<>>)

\* the blocks without a Start line that can be parsed, and those with one
NoStartBlocks == {NoStartBlock, BadStartBlock, NoStartBadLocationBlock}
StartBlocks == {GoodBlock, UnmatchedBlock, OutOfRangeBlock, BadLocationBlock, ShortBlock}

\* the Start of a block that has one
StartOf(block) ==
    CASE block = GoodBlock -> "00:10"
      [] block = UnmatchedBlock -> "01:05"
      [] block = OutOfRangeBlock -> "02:30"
      [] block = BadLocationBlock -> "00:20"
      [] block = ShortBlock -> "03:00"

\* C6: a block without a Start line that can be parsed yields no Issue and every
\* other block that has one yields its Issue: a text of two blocks whose first
\* block lacks Start yields exactly one Issue, that of the second block.
C6_MissingStartDropsOnlyItsBlock ==
    request.op = "_parse_issues" /\ response # NoResponse =>
        \A first \in NoStartBlocks, second \in StartBlocks :
            request.raw_analysis = BlocksText(<<first, second>>) =>
                /\ response.kind = "returned"
                /\ Len(response.v) = 1
                /\ response.v[1].start_timestamp = StartOf(second)

\* C7: for every text the parser returns a sequence of Issues and never raises.
C7_NeverRaises == request.op = "_parse_issues" => response.kind # "raised"

(***************************************************************************)
(* Properties of the summary generator (SpecSummary).                      *)
(***************************************************************************)
SeveritiesOf(issues) == [i \in 1..Len(issues) |-> issues[i].severity]

CountOf(issues, sev) == Cardinality({i \in 1..Len(issues) : issues[i].severity = sev})

\* "{count} {severity}" when the severity is present
CountPart(issues, sev) ==
    IF CountOf(issues, sev) > 0
    THEN <<str_of_nat(CountOf(issues, sev)) \o " " \o sev>> ELSE <<>>

\* the counts from most to least severe: a function of the counts alone
CountsMostSevereFirst(issues) ==
    join(", ", CountPart(issues, "critical") \o CountPart(issues, "high")
                   \o CountPart(issues, "medium") \o CountPart(issues, "low"))

\* C9: for every non-empty sequence of Issues the generated summary lists the
\* counts of the severities present from most to least severe (critical, high,
\* medium, low).  The list is a function of the counts alone, so two sequences
\* that are permutations of each other get the same summary; severities
\* [high, low, high] give "2 high, 1 low".
C9_CountsMostSevereFirst ==
    /\ request.op = "_generate_summary"
    /\ response.kind = "returned"
    /\ request.issues # <<>>
    => /\ response.v = "Analysis identified " \o str_of_nat(Len(request.issues))
                           \o (IF Len(request.issues) = 1
                               THEN " potential issue (" ELSE " potential issues (")
                           \o CountsMostSevereFirst(request.issues) \o ") requiring review."
       /\ SeveritiesOf(request.issues) = <<"high", "low", "high">> =>
              contains(response.v, "(2 high, 1 low)")

\* the summary of [low, high, high] was generated
C9_Witness ==
    /\ request.op = "_generate_summary"
    /\ SeveritiesOf(request.issues) = <<"low", "high", "high">>
    /\ response.kind = "returned"
    /\ contains(response.v, "(2 high, 1 low)")

\* the fixed sentence of each class for an empty list
NoIssuesSentence(cls) ==
    IF cls = "VideoAnalyzer"
    THEN "No significant medical accuracy issues identified in this video."
    ELSE "No significant medical accuracy issues identified in this content."

\* the text between the parentheses of a summary, split at ", "
CountParts(summary) == split(split(after_first(summary, "("), ")")[1], ", ")

RECURSIVE SumOfCounts(_)
\* the sum of the numbers the parts start with
SumOfCounts(parts) ==
    IF parts = <<>> THEN 0
    ELSE nat_of_str(split(Head(parts), " ")[1]) + SumOfCounts(Tail(parts))

\* C23: the generated summary is the fixed no-issues sentence exactly when the
\* list of Issues is empty; otherwise it reads "Analysis identified {n} potential
\* issue(s) ({counts}) requiring review." with n the number of Issues, counts that
\* sum to n, and the word "issue" exactly when n = 1, "issues" otherwise.
C23_SummaryForm ==
    request.op = "_generate_summary" /\ response.kind = "returned" =>
        /\ request.issues = <<>> <=> response.v = NoIssuesSentence(request.cls)
        /\ request.issues # <<>> =>
               /\ startswith(response.v,
                             "Analysis identified " \o str_of_nat(Len(request.issues))
                                 \o " potential issue")
               /\ Len(request.issues) = 1 <=>
                      startswith(response.v, "Analysis identified 1 potential issue (")
               /\ Len(request.issues) # 1 <=> contains(response.v, " potential issues (")
               /\ split(response.v, ")")[2] = " requiring review."
               /\ SumOfCounts(CountParts(response.v)) = Len(request.issues)

\* the summary of one critical Issue was generated, in the singular
C23_Witness ==
    /\ request.op = "_generate_summary"
    /\ SeveritiesOf(request.issues) = <<"critical">>
    /\ response = Returned("Analysis identified 1 potential issue (1 critical) requiring review.")

(***************************************************************************)
(* Properties of the video identifier (SpecVideoId).                       *)
(***************************************************************************)
\* C10: extract_video_id returns the v= parameter of a youtube.com watch URL, the
\* path segment without query string of a youtu.be link, the object basename of a
\* gs:// path (gs://bucket/video.mp4 gives video.mp4), and any other URL unchanged.
C10_VideoIdPatterns ==
    request.op = "extract_video_id" /\ response.kind = "returned" =>
        /\ request.video_url = "https://www.youtube.com/watch?v=dQw4w9WgXcQ" =>
               response.v = "dQw4w9WgXcQ"
        /\ request.video_url = "https://youtu.be/dQw4w9WgXcQ?si=x" =>
               response.v = "dQw4w9WgXcQ"
        /\ request.video_url = "gs://bucket/video.mp4" => response.v = "video.mp4"
        /\ request.video_url = "https://example.com/videos/video.mp4" =>
               response.v = request.video_url

(***************************************************************************)
(* Properties of the two-step protocol (SpecTwoStep).                      *)
(***************************************************************************)
\* the issue ids upload id U and n issues give: U_0 .. U_(n-1), in order
IssueIdsOf(image_id, n) == [i \in 1..n |-> image_id \o "_" \o str_of_nat(i - 1)]

ReturnedIds(call) ==
    [i \in 1..Len(call.result.v.issues) |-> call.result.v.issues[i].issue_id]

\* C11: after a Phase-1 call has returned with upload id U and n issues, the issue
\* ids it returned are U_0 .. U_(n-1) in the order of the issues, each of them gives
\* U back when its last _index is removed, and a locate call made later with one
\* of them is not answered 404: it sends the remote model the bytes Phase 1 stored
\* for U and no image URL.
C11_IssueIdsRecoverUpload ==
    \A c \in Phase1Calls :
        request[c].pc = "done" /\ request[c].result.kind = "returned" =>
            /\ ReturnedIds(request[c])
                   = IssueIdsOf(request[c].image_id, Len(request[c].result.v.issues))
            /\ \A id \in IssuedIds(request[c]) : image_id_of(id) = request[c].image_id
            /\ (response # NoResponse /\ response.issued
                    /\ response.issue_id \in IssuedIds(request[c])) =>
                   /\ Len(remote_calls) = 1
                   /\ remote_calls[1].image_data = Some(request[c].file_content)
                   /\ remote_calls[1].image_url = None
                   /\ ~(response.result.kind = "raised" /\ response.result.status_code = 404)

\* a Phase-1 call returned two issues under its upload id and a later locate call
\* with the first issue id was served from the bytes of that upload
C11_Witness ==
    \E c \in Phase1Calls :
        /\ request[c].pc = "done" /\ request[c].result.kind = "returned"
        /\ Len(request[c].result.v.issues) = 2
        /\ response # NoResponse /\ response.issued
        /\ response.issue_id = request[c].image_id \o "_0"
        /\ Len(remote_calls) = 1
        /\ remote_calls[1].image_data = Some(BytesOf(c))
        /\ response.result.kind = "returned"

\* a Phase-1 call that has stored its bytes
HasStored(call) == call.pc \in {"awaiting", "done"}

\* C13: in every interleaving of concurrent Phase-1 calls, the calls that have
\* stored their bytes hold identifiers distinct from one another, the table has
\* exactly their identifiers, and at every later point each identifier maps to
\* the bytes of the call that generated it.
C13_ConcurrentUploadsKeepTheirBytes ==
    /\ \A c, d \in Phase1Calls :
           HasStored(request[c]) /\ HasStored(request[d]) /\ c # d =>
               request[c].image_id # request[d].image_id
    /\ \A c \in Phase1Calls :
           HasStored(request[c]) =>
               TableGet(uploaded_images, request[c].image_id) = Some(request[c].file_content)
    /\ DOMAIN uploaded_images
           = {request[c].image_id : c \in {d \in Phase1Calls : HasStored(request[d])}}

\* two calls await their remote calls at the same time, the second has stored its
\* bytes after the first, and the first call's entry still holds the first's bytes
C13_Witness ==
    /\ request[1].pc = "awaiting" /\ request[2].pc = "awaiting"
    /\ TableGet(uploaded_images, request[1].image_id) = Some(BytesOf(1))
    /\ TableGet(uploaded_images, request[2].image_id) = Some(BytesOf(2))

\* a Phase-1 call that ended with an error
HasFailed(call) == call.pc = "done" /\ call.result.kind = "raised"

\* the table had the failed Phase-1 calls never been made
TableWithoutFailed ==
    [k \in DOMAIN uploaded_images
            \ {request[c].image_id : c \in {d \in Phase1Calls : HasFailed(request[d])}}
        |-> uploaded_images[k]]

\* C17: a request that failed does not affect later requests.  The table is the
\* only state a request leaves and get_issue_location the only reader of it, so:
\* every locate request gets, up to its remote call, the outcome it would get had
\* the failed Phase-1 calls never been made.
C17_FailedRequestLeavesNoTrace ==
    \A issue_id \in IssueIds :
        get_issue_location_start(uploaded_images, issue_id, None)
            = get_issue_location_start(TableWithoutFailed, issue_id, None)

(***************************************************************************)
(* Properties of Settings (SpecSettings).                                  *)
(***************************************************************************)
\* the variable the environment lacks, "" when it lacks none
MissingVariable(env) ==
    IF env.google_genai_use_vertexai
    THEN IF ~Supplied(env.google_cloud_project) THEN "GOOGLE_CLOUD_PROJECT"
         ELSE IF env.google_cloud_location = "" THEN "GOOGLE_CLOUD_LOCATION"
         ELSE ""
    ELSE IF ~Supplied(env.gemini_api_key) THEN "GEMINI_API_KEY" ELSE ""

\* C18: the construction of Settings succeeds exactly when, with Vertex AI on, the
\* project and the location are not empty and, with Vertex AI off, the API key is
\* not empty; otherwise it fails with a validation error whose message names the
\* missing variable (the project before the location when both are missing).
C18_SettingsValidation ==
    request.op = "Settings" /\ response # NoResponse =>
        /\ response.kind = "returned" <=> MissingVariable(request) = ""
        /\ MissingVariable(request) # "" =>
               /\ response.kind = "raised"
               /\ response.exc = "ValidationError"
               /\ startswith(response.message, MissingVariable(request) \o " is required")

\* Vertex AI on, a project and an empty location: the construction failed and the
\* error names GOOGLE_CLOUD_LOCATION
C18_Witness ==
    /\ request.op = "Settings"
    /\ request.google_genai_use_vertexai
    /\ request.google_cloud_project = Some("test-project")
    /\ request.google_cloud_location = ""
    /\ response.kind = "raised"
    /\ contains(response.message, "GOOGLE_CLOUD_LOCATION")

(***************************************************************************)
(* The Issues of the blocks of a legacy text (SpecParse).                  *)
(***************************************************************************)
\* the blocks that hold a Start line with a timestamp and no Example: text
IssueBlocks == StartBlocks \cup {NoEndShortBlock, LongStampBlock}

\* the first timestamp of the Start line of such a block
StartStampOf(block) ==
    CASE block \in StartBlocks -> StartOf(block)
      [] block = NoEndShortBlock -> "04:00"
      [] block = LongStampBlock -> "01:02:03"

\* the blocks with no End line, or with one that holds neither a timestamp nor n/a
NoEndBlocks == {UnmatchedBlock, BadLocationBlock, NoEndShortBlock}

\* the blocks whose Description line holds fewer than 10 characters
ShortDescriptionBlocks == {ShortBlock, NoEndShortBlock}

IsIssueBlock(block) == block \in IssueBlocks

\* the blocks of the sequence that yield an Issue, in their order
BlocksKept(blocks) == SelectSeq(blocks, IsIssueBlock)

\* the text of the request is made of these blocks
ParsedFrom(blocks) ==
    /\ request.op = "_parse_issues"
    /\ response.kind = "returned"
    /\ request.raw_analysis \in {pre \o BlocksText(blocks) : pre \in Preambles}

\* what precedes the first ISSUE: of the text of the request
TextPreamble == Head(split(request.raw_analysis, "ISSUE:"))

\* the blocks the text of the request is made of
TextBlocks == Tail(split(request.raw_analysis, "ISSUE:"))

\* the parser returned on a text made of a preamble and blocks of the pool
ParsedFromBlocks ==
    /\ request.op = "_parse_issues"
    /\ response.kind = "returned"
    /\ TextPreamble \in Preambles
    /\ TextBlocks \in BlockSeqs

\* C3: every Issue the parser returns has a severity among low, medium, high,
\* critical and a category among the defined categories; the Issue of a block
\* none of whose Severity lines names a level (the line is absent or matches no
\* level) has severity medium, and the Issue of a block none of whose Category
\* lines names a category has category other, whatever the other blocks of the
\* text name.
C3_EnumsAndDefaults ==
    /\ request.op = "_parse_issues" /\ response.kind = "returned" =>
           \A i \in 1..Len(response.v) :
               /\ response.v[i].severity \in Range(Severity)
               /\ response.v[i].category \in Range(IssueCategory)
    /\ ParsedFromBlocks =>
           /\ Len(response.v) = Len(BlocksKept(TextBlocks))
           /\ \A i \in 1..Len(response.v) :
                  /\ ~SeverityNamed(BlocksKept(TextBlocks)[i]) =>
                         response.v[i].severity = "medium"
                  /\ ~CategoryNamed(BlocksKept(TextBlocks)[i]) =>
                         response.v[i].category = "other"

\* a block that names high and medical accuracy, followed by a block whose Severity
\* and Category lines match nothing, was returned as an Issue of severity high and
\* category medical_accuracy and an Issue of severity medium and category other
C3_Witness ==
    /\ request.op = "_parse_issues"
    /\ request.raw_analysis = BlocksText(<<GoodBlock, UnmatchedBlock>>)
    /\ SeverityNamed(GoodBlock) /\ CategoryNamed(GoodBlock)
    /\ ~SeverityNamed(UnmatchedBlock) /\ ~CategoryNamed(UnmatchedBlock)
    /\ response.kind = "returned"
    /\ Len(response.v) = 2
    /\ response.v[1].severity = "high"
    /\ response.v[1].category = "medical_accuracy"
    /\ response.v[2].severity = "medium"
    /\ response.v[2].category = "other"

\* C21: every Issue produced from a legacy block with no parseable End line has
\* end_timestamp equal to start_timestamp; when the block's description is shorter
\* than 10 characters the Issue's description is the placeholder that embeds the
\* start timestamp; every produced Issue has a description of at least 10
\* characters, and every block with a Start yields its Issue: none is rejected
\* for a short description.
C21_DefaultsKeepTheIssue ==
    ParsedFromBlocks =>
        /\ Len(response.v) = Len(BlocksKept(TextBlocks))
        /\ \A i \in 1..Len(response.v) :
               /\ response.v[i].start_timestamp = StartStampOf(BlocksKept(TextBlocks)[i])
               /\ Len(response.v[i].description) >= DescriptionMinLength
               /\ BlocksKept(TextBlocks)[i] \in NoEndBlocks =>
                      response.v[i].end_timestamp = response.v[i].start_timestamp
               /\ BlocksKept(TextBlocks)[i] \in ShortDescriptionBlocks =>
                      response.v[i].description =
                          "Potential issue identified at "
                              \o StartStampOf(BlocksKept(TextBlocks)[i])

\* a block with an End line that holds no timestamp and the description "tiny" was
\* returned as an Issue that ends at its start and carries the placeholder
C21_Witness ==
    /\ ParsedFrom(<<GoodBlock, NoEndShortBlock>>)
    /\ Len(response.v) = 2
    /\ response.v[2].start_timestamp = "04:00"
    /\ response.v[2].end_timestamp = "04:00"
    /\ response.v[2].description = "Potential issue identified at 04:00"

(***************************************************************************)
(* Structured output that does not validate (Spec).                        *)
(***************************************************************************)
\* replies that are not JSON or do not match the schema
InvalidStructuredTexts ==
    {"I cannot analyze this content.", TruncatedPayload, ShortDescriptionPayload}
        \cup {StructuredPayload(p) : p \in Payloads \ ValidPayloads}

\* C24: in structured mode a reply that is not valid JSON or does not match the
\* schema (an element with an unknown severity or a description that is too
\* short, also next to valid elements) makes analyze fail with a parse error: no
\* result is returned, so no partial list and no dropped or defaulted element;
\* a result that is returned holds every element of the payload as it was sent.
C24_StructuredFailureIsTerminal ==
    request.op = "AnalyzerService.analyze" /\ response.kind \in {"returned", "raised"} =>
        /\ \A text \in InvalidStructuredTexts :
               remote_reply = TextReply(text) =>
                   response.kind = "raised" /\ response.exc = "ValidationError"
        /\ response.kind = "returned" =>
               \A p \in Payloads :
                   remote_reply = TextReply(StructuredPayload(p)) =>
                       p \in ValidPayloads /\ response.v.issues = PayloadIssues(p)

\* a payload of a valid element followed by one of severity urgent failed
C24_Witness ==
    /\ request.op = "AnalyzerService.analyze"
    /\ remote_reply = TextReply(StructuredPayload([severities |-> <<"high", "urgent">>,
                                                   location |-> NoLocationJson,
                                                   summary |-> NoSummaryJson]))
    /\ response.kind = "raised"
    /\ response.exc = "ValidationError"

(***************************************************************************)
(* The reply of the locate step (Spec).                                    *)
(***************************************************************************)
\* a member of the object that holds a coordinate: a number, or a string that reads
\* as one, between 0 and 1
CoordinateInRange(field) ==
    /\ field # None
    /\ field[1].t \in {"int", "float", "str"}
    /\ py_float(field[1]).exc = ""
    /\ float_ge_zero(py_float(field[1]).v) /\ float_le_one(py_float(field[1]).v)

\* the object a search of the text finds is JSON with x and y in range
LocatableObject(json_match) ==
    /\ json_match # None
    /\ json_loads(json_match[1], request.frames).ok
    /\ CoordinateInRange(json_get(json_loads(json_match[1], request.frames).v, "x"))
    /\ CoordinateInRange(json_get(json_loads(json_match[1], request.frames).v, "y"))

\* C25: Phase 2 returns a Location only when the first brace-delimited object of
\* the model's reply, with any prose around it, is valid JSON that holds x and y,
\* each a number in [0, 1]; with no object, a missing field, a value that is not
\* a number or is out of range the call fails and returns no Location.  A
\* response that is returned carries the issue id of the request.
C25_LocationOnlyFromValidObject ==
    /\ request.op = "get_issue_location"
    /\ response.kind \in {"returned", "raised"}
    /\ remote_reply.received /\ ~remote_reply.raises
    => /\ response.kind = "returned" <=>
              LocatableObject(first_brace_object(strip(remote_reply.text)))
       /\ response.kind = "returned" => response.v.issue_id = request.issue_id

(***************************************************************************)
(* The content identifier of a result (Spec).                              *)
(***************************************************************************)
\* the final segment of the path of a URL: of what precedes its query string
FinalPathSegment(url) == Last(split(split(url, "?")[1], "/"))

\* C26: the content identifier of a result is, for an image URL, the final path
\* segment of the URL without its query string (image.jpg for
\* https://example.com/image.jpg, also when the query string holds a slash), and
\* for raw bytes the fixed identifier uploaded_image.
C26_ContentIdentifier ==
    request.op \in AnalyzeOps /\ response.kind = "returned" =>
        /\ Truthy(request.image_url) =>
               response.v.video_id = FinalPathSegment(request.image_url[1])
        /\ request.image_url = Some("https://example.com/image.jpg?next=/home") =>
               response.v.video_id = "image.jpg"
        /\ Truthy(request.image_data) => response.v.video_id = "uploaded_image"

(***************************************************************************)
(* The table of uploads over time (Spec).                                  *)
(***************************************************************************)
\* the bytes the table holds for the upload an issue id names
BytesFor(table, issue_id) == TableGet(table, image_id_of(issue_id))

\* C27: the table of uploads only grows: no step of any request removes an entry
\* or changes the bytes of one; a Phase-2 call leaves the table as it is,
\* whether it succeeds or fails; so every Phase-2 call for an issue id of an
\* upload is served the bytes that upload stored.
C27_TableOnlyGrows ==
    [][/\ \A k \in DOMAIN uploaded_images :
              k \in DOMAIN uploaded_images' /\ uploaded_images'[k] = uploaded_images[k]
       /\ (request.op = "get_issue_location" \/ request'.op = "get_issue_location") =>
              uploaded_images' = uploaded_images
       /\ (request'.op = "get_issue_location" /\ remote_calls' # <<>>
               /\ Truthy(BytesFor(uploaded_images', request'.issue_id))) =>
              remote_calls'[1].image_data = BytesFor(uploaded_images', request'.issue_id)]_vars

\* with two uploads in the table, a Phase-2 call for an issue of the first was
\* served that upload's bytes and failed, and the table still holds both uploads
C27_Witness ==
    /\ Cardinality(DOMAIN uploaded_images) = 2
    /\ request.op = "get_issue_location"
    /\ request.issue_id = "img-1_1"
    /\ response.kind = "raised"
    /\ remote_calls # <<>>
    /\ remote_calls[1].image_data = Some("PNG1")
    /\ TableGet(uploaded_images, "img-1") = Some("PNG1")

(***************************************************************************)
(* The order of the Issues of a result (Spec).                             *)
(***************************************************************************)
\* replies whose blocks are in and out of the order of their timestamps, and one
\* whose two blocks are the same
OrderedBlockSeqs ==
    {<<GoodBlock, ShortBlock>>, <<ShortBlock, GoodBlock>>, <<GoodBlock, GoodBlock>>,
     <<NoStartBlock, UnmatchedBlock>>}

\* the Start timestamps of the blocks that yield an Issue, in the order of the blocks
StartStampsOf(blocks) ==
    [i \in 1..Len(BlocksKept(blocks)) |-> StartStampOf(BlocksKept(blocks)[i])]

StartStamps(issues) == [i \in 1..Len(issues) |-> issues[i].start_timestamp]

LegacyOps == {"VideoAnalyzer.analyze", "analyze_initial", "analyze_video", "analyze_upload"}

\* C22: the Issues of a returned result are in the order of their blocks (legacy
\* output) or array elements (structured output) in the model's reply, one per
\* block or element: nothing re-sorts, deduplicates or reorders them, and the
\* issue ids of Phase 1 number them in that order from 0.
C22_IssuesKeepModelOrder ==
    response.kind = "returned" =>
        /\ request.op \in LegacyOps =>
               \A blocks \in OrderedBlockSeqs :
                   remote_reply = TextReply(BlocksText(blocks)) =>
                       StartStamps(response.v.issues) = StartStampsOf(blocks)
        /\ request.op = "analyze_initial" =>
               [i \in 1..Len(response.v.issues) |-> response.v.issues[i].issue_id]
                   = IssueIdsOf(request.image_id, Len(response.v.issues))
        /\ request.op = "AnalyzerService.analyze" =>
               \A p \in Payloads :
                   remote_reply = TextReply(StructuredPayload(p)) =>
                       SeveritiesOf(response.v.issues) = p.severities

\* Phase 1 returned the Issues of a reply whose later block has the earlier timestamp
C22_Witness ==
    /\ request.op = "analyze_initial"
    /\ remote_reply = TextReply(BlocksText(<<ShortBlock, GoodBlock>>))
    /\ response.kind = "returned"
    /\ StartStamps(response.v.issues) = <<"03:00", "00:10">>
    /\ response.v.issues[1].issue_id = request.image_id \o "_0"
    /\ response.v.issues[2].issue_id = request.image_id \o "_1"

(***************************************************************************)
(* The timestamps of the Issues of a result (Spec).                        *)
(***************************************************************************)
\* MM:SS or HH:MM:SS, the hours or minutes in front of one or two digits
IsTimestamp(s) == s # "" /\ timestamp_search(s) = Some(s)

\* C28: every Issue of a returned result has a start_timestamp and an
\* end_timestamp that are each the literal N/A or of the form MM:SS or HH:MM:SS;
\* a Start or End line of a legacy block that holds neither yields no timestamp
\* of any other content.
C28_TimestampForm ==
    request.op \in AnalyzeOps \cup LegacyOps /\ response.kind = "returned" =>
        \A i \in 1..Len(response.v.issues) :
            /\ \/ response.v.issues[i].start_timestamp = "N/A"
               \/ IsTimestamp(response.v.issues[i].start_timestamp)
            /\ \/ response.v.issues[i].end_timestamp = "N/A"
               \/ IsTimestamp(response.v.issues[i].end_timestamp)

(***************************************************************************)
(* The ranges get_file serves (SpecGetFile).                               *)
(***************************************************************************)
\* the stream of the response ran to the end of its loop and the file is closed:
\* the consumer did not close it early and no call of the file raised
StreamEnded ==
    /\ remote_reply # NoReply
    /\ remote_reply.iter = "iterfile"
    /\ remote_reply.at = "closed"
    /\ remote_reply.exit = ""

\* the last byte the response announces: start + chunk_size - 1
RangeEnd == response.v.start + response.v.chunk_size - 1

\* C29: every Range request that get_file answers with status 206 has
\* 0 <= start <= end <= file_size - 1, a Content-Length of end - start + 1, which
\* is at least 1 and is the length the Content-Range header announces, and a
\* streamed body of exactly that many bytes; a request whose start is at or
\* beyond file_size is answered with 416.
C29_PartialContentIsConsistent ==
    /\ request.op = "get_file" /\ response.kind = "returned" /\ response.v.status_code = 206 =>
           /\ 0 <= response.v.start
           /\ response.v.start <= RangeEnd
           /\ RangeEnd <= request.file_size - 1
           /\ response.v.headers["Content-Length"] = str_of_int(RangeEnd - response.v.start + 1)
           /\ RangeEnd - response.v.start + 1 >= 1
           /\ response.v.headers["Content-Range"]
                  = "bytes " \o str_of_int(response.v.start) \o "-" \o str_of_int(RangeEnd)
                        \o "/" \o str_of_int(request.file_size)
           /\ StreamEnded => response.v.body = RangeEnd - response.v.start + 1
    /\ (request.op = "get_file" /\ response.kind \in {"returned", "raised"}
            /\ request.blob_exists = "true"
            /\ request.blob_reload = "loaded"
            /\ Truthy(request.range_header)
            /\ int_ge(parse_range(request.range_header[1], request.file_size).start,
                      request.file_size)) =>
           response.kind = "raised" /\ response.status_code = 416

(***************************************************************************)
(* Legacy blocks that hold the text Example: (SpecParse).                  *)
(***************************************************************************)
\* the blocks that hold Example:, at their start or after their fields
ExampleBlocks == {ExampleBlock, TrailingExampleBlock}

\* the Start timestamps of those blocks
ExampleStarts == {"00:01", "00:40"}

IsNotExampleBlock(block) == block \notin ExampleBlocks

\* the blocks of the sequence without those that hold Example:
WithoutExamples(blocks) == SelectSeq(blocks, IsNotExampleBlock)

\* C30: a legacy block whose text holds Example: anywhere, also after its
\* well-formed fields, yields no Issue, and the other blocks yield the Issues
\* they yield without it: the list returned is the list of the same text with
\* the Example: blocks taken out.
C30_ExampleBlocksAreSkipped ==
    ParsedFromBlocks =>
        /\ \A i \in 1..Len(response.v) :
               response.v[i].start_timestamp \notin ExampleStarts
        /\ Len(response.v) = Len(BlocksKept(WithoutExamples(TextBlocks)))
        /\ _parse_issues(TextPreamble \o BlocksText(WithoutExamples(TextBlocks)),
                         request.frames)
               = Ret(response.v)

\* a complete block followed by an Example: line came before a good block, and
\* the good block's Issue is the only one returned
C30_Witness ==
    /\ ParsedFrom(<<TrailingExampleBlock, GoodBlock>>)
    /\ Len(response.v) = 1
    /\ response.v[1].start_timestamp = "00:10"
    /\ response.v[1].description = "Incorrect dosage mentioned."

(***************************************************************************)
(* The Location line of a legacy block (SpecParse).                        *)
(***************************************************************************)
\* the blocks with a Start line whose Location line cannot be parsed
LocationDefectBlocks == {OutOfRangeBlock, BadLocationBlock}

\* C20: a legacy block whose Location line cannot be parsed (JSON that is not an
\* object, a coordinate out of range) still yields its Issue, with no location:
\* the parse does not fail and the block is not dropped.
C20_LocationDefectKeepsIssue ==
    request.op = "_parse_issues" /\ response # NoResponse =>
        \A block \in LocationDefectBlocks :
            request.raw_analysis = BlocksText(<<block>>) =>
                /\ response.kind = "returned"
                /\ Len(response.v) = 1
                /\ response.v[1].start_timestamp = StartOf(block)
                /\ response.v[1].location = None

====
